---- MODULE Spec2Model ----
(***************************************************************************)
(* Verification model of the TikTok ads crawler: the storage engines       *)
(* (PrismaDatabase, SQLiteDatabase), the pagination tracker                *)
(* (PaginationService), the interception pipeline                          *)
(* (setupRequestInterception), and the session restore / top-level handler *)
(* of routes.ts.                                                           *)
(***************************************************************************)
EXTENDS Integers, Sequences, FiniteSets, Bags, TLC

(***************************************************************************)
(* Bounds of the model.                                                    *)
(***************************************************************************)
MaxResponses == 2
MaxMaterials == 2
MaxConcResponses == 2
MaxConcMaterials == 1
MaxStoreCalls == 3
MaxUpdates == 3
MaxLiveUpdates == 2
MaxInstances == 3
MaxFactoryCalls == 3
MaxCloses == 1

(***************************************************************************)
(* Input domains.  "" is the empty string, a value the id field can hold.  *)
(***************************************************************************)
Ids == {"", "a", "b"}
Vids == {"v"}
NoVid == "none"
Callbacks == {"cb1", "cb2"}
Direct == "direct"

AdDatas == [id : Ids, creativeId : Ids, vid : Vids \cup {NoVid}]

Pags == [page : {1, 2}, total_count : {0, 45, 60}, size : {0, 10, 20}]
NoPag == [page |-> 0, total_count |-> 0, size |-> 0]

VARIABLES
    engine,        \* storage engine behind the IDatabase port
    ads,           \* table ads: bag of rows [id, creativeId]
    markers,       \* table processed_items: set of item keys
    videos,        \* table video_info: set of vids
    tx,            \* SQLite transaction: [open, ads, markers, videos] snapshot taken at BEGIN
    ins,           \* per caller: the insertAd call in progress
    insertCalls,   \* history: number of insertAd calls per id
    insertOk,      \* history: number of insertAd calls per id that returned normally
    skips,         \* history: number of records per id the duplicate check skipped
    storeCalls,    \* number of direct insertAd calls started
    lastErr,       \* message of the last error a direct insertAd call raised ("" if none)
    cb,            \* per route callback: position and locals of the route handler
    handled,       \* number of matched requests whose handler has started
    singleFlight,  \* TRUE when the runtime delivers one response at a time
    currentPage,   \* PaginationService.currentPage
    totalItems,    \* PaginationService.totalItems
    itemsPerPage,  \* PaginationService.itemsPerPage
    lastUpdate,    \* history: [seen, pag] the argument of the most recent updatePagination
    prevUpdate,    \* history: [seen, pag] the argument of the updatePagination before that
    updates,       \* number of updatePagination calls made
    loopPc,        \* scrollAndCollectData: "idle", "loop" or "done"
    loopI,         \* scrollAndCollectData: the loop counter i
    requiredScrolls, \* scrollAndCollectData: the value read from getRequiredScrolls()
    scrollFailed,  \* history: number of iterations whose scroll or delay threw
    hpc,           \* position of the top-level handler (restoreSession inlined)
    sessionFile,   \* storage/state.json: [kind, cookies, origins]
    fileAtCall,    \* history: the session file as it was when restoreSession was called
    navOks,        \* history: navigations to the target that restoreSession completed
    rsChecks,      \* history: isLoggedIn calls made by restoreSession
    browserCookies, \* cookies of the browser context
    ls,            \* localStorage of the browser, per origin
    curOrigin,     \* origin of the document the page shows
    originIdx,     \* restoreSession: index into sessionState.origins
    retryCount,    \* restoreSession: retryCount of the origin being replayed
    navI,          \* restoreSession: loop counter i of the navigation attempts
    loginSuccess,  \* restoreSession: loginSuccess
    rsResult,      \* value restoreSession returned
    lastAuth,      \* history: result of the most recent isLoggedIn ("none" before any)
    interception,  \* setupRequestInterception has registered the route
    scrollStarted, \* scrollAndCollectData has been called
    notified,      \* showProcessAbortedNotification has been called
    cpc,           \* position of handleCaptchaSolverApi
    captchaMode,   \* Env.CHAPTCHA_RESOLVE_MODE: "manual", anything else is the API mode
    attempts,      \* handleCaptchaSolverApi: attempts
    solverCalls,   \* history: number of SadCaptchaService.solveCaptcha calls
    solved,        \* handleCaptchaSolverApi: solved ("none" before the call)
    pageSt,        \* the live page: [captcha, email, confirm] elements visible
    goneSinceClicks, \* history: the CAPTCHA element has been absent ever since the solver's clicks
    prompt,        \* an on-page prompt for the operator is displayed
    doneSignal,    \* the operator has used an "I'm done" control of the page
    chResult,      \* outcome of handleCaptchaSolverApi: "none", "true", "false", "threw"
    epc,           \* position of handleEmailCodeVerification
    emailOutcome,  \* history: how handleEmailCodeVerification ended
    emailResult,   \* outcome of handleEmailCodeVerification: "none", "true", "false"
    emailWaited,   \* history: time the email manual wait took, in 10 s units
    detected,      \* history: what checkForCaptcha reported: "none", "absent", "present", "threw"
    emailSeen,     \* history: checkEmailVerification returned true in the latest pass of the wait
    lastClicked,   \* history: the latest pass of the wait clicked a confirm control
    dpc,           \* position of the detector: "off", "scan", "after" or "done"
    detector,      \* which detector runs
    visible,       \* the selectors of the detector's list that are visible on the page
    dIdx,          \* index of the selector the detector's for loop is at
    probes,        \* history: number of probes made per selector
    probeErrored,  \* history: some probe timed out or rejected
    dResult,       \* outcome of the detector: "none", "absent", "present", "threw"
    shot,          \* history: the detector wrote a screenshot of a CAPTCHA element to its path
    pool,          \* DatabaseFactory.databases: the Map's entries [key, inst] in insertion order
    instances,     \* the engines constructed so far: [key, st], an engine's id is its index
    pending,       \* the ids of the engines whose connect() a createDatabase call awaits
    returned,      \* history: per (type, connection string) the ids createDatabase resolved with
    rejections,    \* history: the errors createDatabase rejected with, [prefix, cause]
    lastCall,      \* history: [type, conn] of the most recent createDatabase call
    factoryCalls,  \* number of createDatabase calls made
    closePc,       \* position of closeAll: "idle", "iter" or "await"
    closeIdx,      \* closeAll: position of the Map iterator
    closeKey,      \* closeAll: key of the entry whose disconnect() is awaited
    closeInst,     \* closeAll: database of the entry whose disconnect() is awaited
    closeErrors,   \* closeAll: errors.length
    closeTried,    \* history: ids closeAll called disconnect() on
    closeOk,       \* history: ids whose disconnect() resolved in closeAll
    closeRemoved,  \* history: ids closeAll deleted from the Map
    closeResult,   \* outcome of the most recent closeAll: "none", "ok", "threw"
    closeCalls,    \* number of closeAll calls that have settled
    wpc,           \* position of completeVerificationCodeWorkflow: "off", "poll", "use", "done"
    wAttempts,     \* getTikTokVerificationCodeWithRetries: attempts
    wCode,         \* the code getTikTokVerificationCodeWithRetries resolved with ("" if none)
    wSuccess,      \* verificationResult.success: "none", "true", "false"
    polls,         \* history: number of getTikTokVerificationCode calls made
    pollErrored,   \* history: some getTikTokVerificationCode call threw
    firstCode,     \* history: the code of the first response that carried one ("" if none)
    usedCodes      \* history: the arguments enterVerificationCode was called with

storeVars == <<engine, ads, markers, videos, tx, ins, insertCalls, insertOk, skips, storeCalls, lastErr>>
authVars == <<hpc, sessionFile, fileAtCall, navOks, rsChecks, browserCookies, ls, curOrigin, originIdx, retryCount, navI,
              loginSuccess, rsResult, lastAuth, interception, scrollStarted, notified>>
pollHist == <<detected, emailSeen, lastClicked>>
mailVars == <<wpc, wAttempts, wCode, wSuccess, polls, pollErrored, firstCode, usedCodes>>
challengeVars == <<cpc, captchaMode, attempts, solverCalls, solved, pageSt, goneSinceClicks, prompt,
                   doneSignal, chResult, epc, emailOutcome, emailResult, emailWaited, pollHist, mailVars>>
detectVars == <<dpc, detector, visible, dIdx, probes, probeErrored, dResult, shot>>
factoryVars == <<pool, instances, pending, returned, rejections, lastCall, factoryCalls, closePc, closeIdx,
                 closeKey, closeInst, closeErrors, closeTried, closeOk, closeRemoved, closeResult,
                 closeCalls>>
restVars == <<singleFlight, authVars, challengeVars, detectVars, factoryVars>>
pipeVars == <<cb, handled, restVars>>
trackerVars == <<currentPage, totalItems, itemsPerPage, lastUpdate, prevUpdate, updates>>
loopVars == <<loopPc, loopI, requiredScrolls, scrollFailed>>
pagVars == <<trackerVars, loopVars>>
vars == <<storeVars, pipeVars, pagVars>>

(***************************************************************************)
(* PaginationService (src/src/services/paginationService.ts)               *)
(***************************************************************************)
DefaultScrolls == 20

\* a variant that rounds down (Math.floor)
MathCeilDiv_floor(a, b) == a \div b

\* Math.ceil(a / b) for a >= 0, b > 0
MathCeilDiv(a, b) == (a + b - 1) \div b

\* a variant that returns the scrolls remaining after the current page
getRequiredScrollsOf_remaining(total, size) ==
    IF total = 0 \/ size = 0
    THEN DefaultScrolls
    ELSE MathCeilDiv(total, size) - currentPage

getRequiredScrollsOf(total, size) ==
    IF total = 0 \/ size = 0
    THEN DefaultScrolls
    ELSE MathCeilDiv(total, size)

getRequiredScrolls == getRequiredScrollsOf(totalItems, itemsPerPage)

\* { current: this.currentPage, total: Math.ceil(this.totalItems / this.itemsPerPage) }:
\* the division is not guarded, 0 / 0 is NaN and n / 0 is Infinity, which Math.ceil keeps
getCurrentProgress ==
    [current |-> currentPage,
     total |-> IF itemsPerPage = 0
               THEN [kind |-> IF totalItems = 0 THEN "NaN" ELSE "Infinity", n |-> 0]
               ELSE [kind |-> "integer", n |-> MathCeilDiv(totalItems, itemsPerPage)]]

\* a variant that never lowers the total it has seen
updatePagination_keepMax(pagination) ==
    /\ currentPage' = pagination.page
    /\ totalItems' = IF pagination.total_count > totalItems THEN pagination.total_count ELSE totalItems
    /\ itemsPerPage' = pagination.size
    /\ lastUpdate' = [seen |-> TRUE, pag |-> pagination]
    /\ prevUpdate' = lastUpdate
    /\ updates' = updates + 1

\* the three assignments of updatePagination; synchronous, so one step
updatePagination(pagination) ==
    /\ currentPage' = pagination.page
    /\ totalItems' = pagination.total_count
    /\ itemsPerPage' = pagination.size
    /\ lastUpdate' = [seen |-> TRUE, pag |-> pagination]
    /\ prevUpdate' = lastUpdate
    /\ updates' = updates + 1

PagInit ==
    /\ currentPage = 1
    /\ totalItems = 0
    /\ itemsPerPage = 0
    /\ lastUpdate = [seen |-> FALSE, pag |-> NoPag]
    /\ prevUpdate = [seen |-> FALSE, pag |-> NoPag]
    /\ updates = 0
    /\ loopPc = "idle"
    /\ loopI = 0
    /\ requiredScrolls = 0
    /\ scrollFailed = 0

(***************************************************************************)
(* scrollAndCollectData (src/src/steps/scrollAndCollectData.ts) and the    *)
(* onResponse callback of routes.ts, which runs between the loop's awaits. *)
(***************************************************************************)
\* const requiredScrolls = paginationService.getRequiredScrolls()
ScrollStart ==
    /\ loopPc = "idle"
    /\ requiredScrolls' = getRequiredScrolls
    /\ loopI' = 0
    /\ loopPc' = "loop"
    /\ UNCHANGED scrollFailed
    /\ UNCHANGED <<storeVars, pipeVars, trackerVars>>

\* a variant whose catch block rethrows
AfterScrollErrorPc_rethrow == "threw"

\* catch (scrollError): log.error, then the next iteration
AfterScrollErrorPc == "loop"

\* one iteration: getCurrentProgress and log.info, then scrollNaturally and delay inside
\* the try block; i++ follows either the try block or the catch block
ScrollIteration ==
    /\ loopPc = "loop"
    /\ loopI < requiredScrolls
    /\ \E scrollThrows \in BOOLEAN :
         /\ loopPc' = IF scrollThrows THEN AfterScrollErrorPc ELSE "loop"
         /\ scrollFailed' = IF scrollThrows THEN scrollFailed + 1 ELSE scrollFailed
         /\ loopI' = IF loopPc' = "loop" THEN loopI + 1 ELSE loopI
    /\ UNCHANGED requiredScrolls
    /\ UNCHANGED <<storeVars, pipeVars, trackerVars>>

ScrollExit ==
    /\ loopPc = "loop"
    /\ loopI >= requiredScrolls
    /\ loopPc' = "done"
    /\ UNCHANGED <<loopI, requiredScrolls, scrollFailed>>
    /\ UNCHANGED <<storeVars, pipeVars, trackerVars>>

\* onResponse: if (response?.data?.pagination) paginationService.updatePagination(...)
PaginationResponse(pagination) ==
    /\ updates < MaxUpdates
    /\ updatePagination(pagination)
    /\ UNCHANGED <<storeVars, pipeVars, loopVars>>

(***************************************************************************)
(* Storage engines                                                         *)
(***************************************************************************)
Row(data) == [id |-> data.id, creativeId |-> data.creativeId]
AdRows == BagToSet(ads)
AdIds == {r.id : r \in AdRows}
CountOfId(x) ==
    LET rs == {r \in AdRows : r.id = x}
        RECURSIVE Sum(_)
        Sum(S) == IF S = {} THEN 0
                  ELSE LET r == CHOOSE q \in S : TRUE IN CopiesIn(r, ads) + Sum(S \ {r})
    IN Sum(rs)

\* PrismaDatabase.exists: a criterion that is falsy (the empty string) is left out of the where clause
PrismaExists(criteria) ==
    \E r \in AdRows :
        /\ (criteria.id # "" => r.id = criteria.id)
        /\ (criteria.creativeId # "" => r.creativeId = criteria.creativeId)

\* SQLiteDatabase.exists: every criterion that is not undefined is a condition
SqliteExists(criteria) ==
    \E r \in AdRows :
        /\ r.id = criteria.id
        /\ r.creativeId = criteria.creativeId

exists(criteria) == IF engine = "prisma" THEN PrismaExists(criteria) ELSE SqliteExists(criteria)

\* a variant that consults the processed-item markers instead of the ads table
isDuplicate_byMarker(data) == data.id \in markers

isDuplicate(data) == exists([id |-> data.id, creativeId |-> data.creativeId])

InsIdle == [pc |-> "idle", data |-> [id |-> "", creativeId |-> "", vid |-> NoVid], err |-> ""]
NoTx == [open |-> FALSE, ads |-> EmptyBag, markers |-> {}, videos |-> {}]

StoreInit ==
    /\ ads = EmptyBag
    /\ markers = {}
    /\ videos = {}
    /\ tx = NoTx
    /\ ins = [k \in Callbacks \cup {Direct} |-> InsIdle]
    /\ insertCalls = [x \in Ids |-> 0]
    /\ insertOk = [x \in Ids |-> 0]
    /\ skips = [x \in Ids |-> 0]
    /\ storeCalls = 0
    /\ lastErr = ""

(***************************************************************************)
(* insertAd, one step per awaited database operation.                      *)
(* PrismaDatabase.insertAd: videoInfo.findUnique, videoInfo.create,        *)
(* ad.create, processedItem.create inside one try/catch, no transaction.   *)
(* SQLiteDatabase.insertAd: the same writes between BEGIN TRANSACTION and  *)
(* COMMIT, with ROLLBACK in the catch.                                     *)
(***************************************************************************)
FailedToInsert == "Failed to insert ad"

\* a variant without the primary key on ads.id
AdCreateRejects_noKey(data) == FALSE

\* ads.id is the primary key (ad.findUnique({where: {id}}); id TEXT PRIMARY KEY)
AdCreateRejects(data) == data.id \in AdIds

\* processed_items.itemKey is the primary key
MarkerCreateRejects(data) == data.id \in markers

\* video_info.vid is the primary key
VideoCreateRejects(data) == data.vid \in videos

AfterBeginPc(data) == IF data.vid # NoVid THEN "vfind" ELSE "ad"

\* the call db.insertAd(data) made by caller k
InsertAdCall(k, data) ==
    /\ ins' = [ins EXCEPT ![k] = [pc |-> IF engine = "sqlite" THEN "begin" ELSE AfterBeginPc(data),
                                      data |-> data, err |-> ""]]
    /\ insertCalls' = [insertCalls EXCEPT ![data.id] = @ + 1]

\* where a failed database operation inside the try block leads
InsCatch(k) == [ins[k] EXCEPT !.pc = IF engine = "sqlite" THEN "rollback" ELSE "failed",
                              !.err = IF engine = "sqlite" THEN "" ELSE FailedToInsert]

\* BEGIN TRANSACTION, issued before the try block: its error is not wrapped
InsBegin(k) ==
    /\ ins[k].pc = "begin"
    /\ \E fail \in BOOLEAN :
        IF fail \/ tx.open
        THEN /\ ins' = [ins EXCEPT ![k].pc = "failed", ![k].err = "raw driver error"]
             /\ UNCHANGED tx
        ELSE /\ tx' = [open |-> TRUE, ads |-> ads, markers |-> markers, videos |-> videos]
             /\ ins' = [ins EXCEPT ![k].pc = AfterBeginPc(ins[k].data)]
    /\ UNCHANGED <<engine, ads, markers, videos, insertCalls, insertOk, skips, storeCalls, lastErr>>
    /\ UNCHANGED <<pipeVars, pagVars>>

InsVideoFind(k) ==
    /\ ins[k].pc = "vfind"
    /\ \E fail \in BOOLEAN :
        ins' = [ins EXCEPT ![k] =
                  IF fail THEN InsCatch(k)
                  ELSE [@ EXCEPT !.pc = IF ins[k].data.vid \in videos THEN "ad" ELSE "vcreate"]]
    /\ UNCHANGED <<engine, ads, markers, videos, tx, insertCalls, insertOk, skips, storeCalls, lastErr>>
    /\ UNCHANGED <<pipeVars, pagVars>>

InsVideoCreate(k) ==
    /\ ins[k].pc = "vcreate"
    /\ \E fail \in BOOLEAN :
        IF fail \/ VideoCreateRejects(ins[k].data)
        THEN /\ ins' = [ins EXCEPT ![k] = InsCatch(k)]
             /\ UNCHANGED videos
        ELSE /\ videos' = videos \cup {ins[k].data.vid}
             /\ ins' = [ins EXCEPT ![k].pc = "ad"]
    /\ UNCHANGED <<engine, ads, markers, tx, insertCalls, insertOk, skips, storeCalls, lastErr>>
    /\ UNCHANGED <<pipeVars, pagVars>>

InsAdCreate(k) ==
    /\ ins[k].pc = "ad"
    /\ \E fail \in BOOLEAN :
        IF fail \/ AdCreateRejects(ins[k].data)
        THEN /\ ins' = [ins EXCEPT ![k] = InsCatch(k)]
             /\ UNCHANGED ads
        ELSE /\ ads' = ads (+) SetToBag({Row(ins[k].data)})
             /\ ins' = [ins EXCEPT ![k].pc = "marker"]
    /\ UNCHANGED <<engine, markers, videos, tx, insertCalls, insertOk, skips, storeCalls, lastErr>>
    /\ UNCHANGED <<pipeVars, pagVars>>

\* the pc after the marker write: Prisma returns, SQLite commits
AfterMarkerPc == IF engine = "sqlite" THEN "commit" ELSE "ok"

InsMarkerCreate(k) ==
    /\ ins[k].pc = "marker"
    /\ \E fail \in BOOLEAN :
        IF fail \/ MarkerCreateRejects(ins[k].data)
        THEN /\ ins' = [ins EXCEPT ![k] = InsCatch(k)]
             /\ UNCHANGED <<markers, insertOk>>
        ELSE /\ markers' = markers \cup {ins[k].data.id}
             /\ ins' = [ins EXCEPT ![k].pc = AfterMarkerPc]
             /\ insertOk' = IF AfterMarkerPc = "ok"
                            THEN [insertOk EXCEPT ![ins[k].data.id] = @ + 1]
                            ELSE insertOk
    /\ UNCHANGED <<engine, ads, videos, tx, insertCalls, skips, storeCalls, lastErr>>
    /\ UNCHANGED <<pipeVars, pagVars>>

InsCommit(k) ==
    /\ ins[k].pc = "commit"
    /\ \E fail \in BOOLEAN :
        IF fail
        THEN /\ ins' = [ins EXCEPT ![k] = InsCatch(k)]
             /\ UNCHANGED <<tx, insertOk>>
        ELSE /\ tx' = NoTx
             /\ ins' = [ins EXCEPT ![k].pc = "ok"]
             /\ insertOk' = [insertOk EXCEPT ![ins[k].data.id] = @ + 1]
    /\ UNCHANGED <<engine, ads, markers, videos, insertCalls, skips, storeCalls, lastErr>>
    /\ UNCHANGED <<pipeVars, pagVars>>

\* ROLLBACK restores the tables to their content at BEGIN; the error is rethrown wrapped
InsRollback(k) ==
    /\ ins[k].pc = "rollback"
    /\ ads' = tx.ads
    /\ markers' = tx.markers
    /\ videos' = tx.videos
    /\ tx' = NoTx
    /\ ins' = [ins EXCEPT ![k].pc = "failed", ![k].err = FailedToInsert]
    /\ UNCHANGED <<engine, insertCalls, insertOk, skips, storeCalls, lastErr>>
    /\ UNCHANGED <<pipeVars, pagVars>>

InsReturned(k) == ins[k].pc \in {"ok", "failed"}

(***************************************************************************)
(* A client calling insertAd directly, one call at a time.                 *)
(***************************************************************************)
StoreCall(data) ==
    /\ ins[Direct].pc = "idle"
    /\ storeCalls < MaxStoreCalls
    /\ storeCalls' = storeCalls + 1
    /\ InsertAdCall(Direct, data)
    /\ UNCHANGED <<engine, ads, markers, videos, tx, insertOk, skips, lastErr>>
    /\ UNCHANGED <<pipeVars, pagVars>>

StoreReturn ==
    /\ InsReturned(Direct)
    /\ lastErr' = ins[Direct].err
    /\ ins' = [ins EXCEPT ![Direct] = InsIdle]
    /\ UNCHANGED <<engine, ads, markers, videos, tx, insertCalls, insertOk, skips, storeCalls>>
    /\ UNCHANGED <<pipeVars, pagVars>>

(***************************************************************************)
(* restoreSession and the default handler (src/src/routes.ts): the state   *)
(***************************************************************************)
MaxRetries == 3
NavAttempts == 3

Target == "o1"                     \* origin of the target application
Origins == {"o1", "o2"}
Blank == "blank"                   \* about:blank or an error page
SnapCookies == {"c1", "c2"}        \* cookies a session file can hold
NewCookie == "new"                 \* the cookie a fresh login sets
SnapKey == "k"                     \* a localStorage key a session file can hold

SessionFiles ==
    {[kind |-> "missing", cookies |-> {}, origins |-> <<>>],
     [kind |-> "corrupt", cookies |-> {}, origins |-> <<>>]}
    \cup {[kind |-> "snapshot", cookies |-> cs, origins |-> os] :
             cs \in SUBSET SnapCookies,
             os \in
             { <<>>,
               <<[origin |-> "o1", localStorage |-> {}]>>,
               <<[origin |-> "o1", localStorage |-> {SnapKey}]>>,
               <<[origin |-> "o2", localStorage |-> {SnapKey}]>>,
               <<[origin |-> "o1", localStorage |-> {SnapKey}], [origin |-> "o2", localStorage |-> {SnapKey}]>> }}

\* context.storageState(): the cookies and, per origin with entries, the localStorage
storageState ==
    LET o1 == IF ls["o1"] # {} THEN <<[origin |-> "o1", localStorage |-> ls["o1"]]>> ELSE <<>>
        o2 == IF ls["o2"] # {} THEN <<[origin |-> "o2", localStorage |-> ls["o2"]]>> ELSE <<>>
    IN [kind |-> "snapshot", cookies |-> browserCookies, origins |-> o1 \o o2]

\* page.evaluate(() => localStorage.clear()): clears the storage of the current document
ClearCurrentStorage == [o \in Origins |-> IF o = curOrigin THEN {} ELSE ls[o]]

AuthIdle ==
    /\ hpc = "off"
    /\ sessionFile = [kind |-> "missing", cookies |-> {}, origins |-> <<>>]
    /\ fileAtCall = sessionFile
    /\ navOks = 0
    /\ rsChecks = 0
    /\ browserCookies = {}
    /\ ls = [o \in Origins |-> {}]
    /\ curOrigin = Target
    /\ originIdx = 0
    /\ retryCount = 0
    /\ navI = 0
    /\ loginSuccess = FALSE
    /\ rsResult = FALSE
    /\ lastAuth = "none"
    /\ interception = FALSE
    /\ scrollStarted = FALSE
    /\ notified = FALSE

\* the crawler has opened the start URL and calls the default handler
AuthInit ==
    /\ hpc = "start"
    /\ sessionFile \in SessionFiles
    /\ fileAtCall = sessionFile
    /\ navOks = 0
    /\ rsChecks = 0
    /\ browserCookies \in {{}, {"old"}}       \* "old" is a cookie present before the handler runs
    /\ ls = [o \in Origins |-> {}]
    /\ curOrigin = Target
    /\ originIdx = 0
    /\ retryCount = 0
    /\ navI = 0
    /\ loginSuccess = FALSE
    /\ rsResult = FALSE
    /\ lastAuth = "none"
    /\ interception = FALSE
    /\ scrollStarted = FALSE
    /\ notified = FALSE

(***************************************************************************)
(* handleCaptchaSolverApi and handleEmailCodeVerification: the state       *)
(***************************************************************************)
MaxAttempts == 360                 \* maxAttempts: one check every 10 seconds for 1 hour
EmailWaitUnits == 3                \* the driver's default wait timeout (30 s), in 10 s units

\* what the probes of the handlers can see on the page
PageStates == [captcha : BOOLEAN, email : BOOLEAN, confirm : BOOLEAN]

ChallengeIdle ==
    /\ cpc = "off"
    /\ captchaMode = "api"
    /\ attempts = 0
    /\ solverCalls = 0
    /\ solved = "none"
    /\ pageSt = [captcha |-> FALSE, email |-> FALSE, confirm |-> FALSE]
    /\ goneSinceClicks = FALSE
    /\ prompt = FALSE
    /\ doneSignal = FALSE
    /\ chResult = "none"
    /\ epc = "off"
    /\ emailOutcome = "none"
    /\ emailResult = "none"
    /\ emailWaited = 0
    /\ detected = "none"
    /\ emailSeen = FALSE
    /\ lastClicked = FALSE

\* the login form was submitted and the handler calls handleCaptchaSolverApi
ChallengeInit ==
    /\ cpc = "start"
    /\ captchaMode \in {"manual", "api"}
    /\ attempts = 0
    /\ solverCalls = 0
    /\ solved = "none"
    /\ pageSt \in PageStates
    /\ goneSinceClicks = FALSE
    /\ prompt = FALSE
    /\ doneSignal = FALSE
    /\ chResult = "none"
    /\ epc = "off"
    /\ emailOutcome = "none"
    /\ emailResult = "none"
    /\ emailWaited = 0
    /\ detected = "none"
    /\ emailSeen = FALSE
    /\ lastClicked = FALSE

(***************************************************************************)
(* The detectors: CaptchaDetectionService.detectCaptcha, checkForCaptcha   *)
(* and checkEmailVerification: the state                                   *)
(***************************************************************************)
captchaSelectors == 1..9           \* the nine entries of captchaSelectors, in order
emailSelectors == 1..3             \* the three entries of emailSelectors, in order
SelectorsOf(d) == IF d = "checkEmailVerification" THEN emailSelectors ELSE captchaSelectors



(***************************************************************************)
(* DatabaseFactory: the state                                              *)
(***************************************************************************)
SupportedTypes == {"prisma", "sqlite"}
ConnStrings == {"", "a"}           \* config.connectionString; "" is the absent one

\* getDatabaseKey: the type and the connection string, which falls back to the
\* environment's URL for every type but prisma
getDatabaseKey(type, conn) ==
    IF type = "prisma" THEN <<type, conn>>
    ELSE IF type = "sqlite" THEN <<type, IF conn = "" THEN "DATABASE_SQLITE_URL" ELSE conn>>
    ELSE <<type, IF conn = "" THEN "DATABASE_MYSQL_URL" ELSE conn>>

\* Map.has, Map.get, Map.set and Map.delete on the entries in insertion order
MapHas(m, key) == \E n \in 1..Len(m) : m[n].key = key
MapGet(m, key) == (CHOOSE n \in 1..Len(m) : m[n].key = key)
MapSet(m, key, inst) ==
    IF MapHas(m, key)
    THEN [n \in 1..Len(m) |-> IF m[n].key = key THEN [key |-> key, inst |-> inst] ELSE m[n]]
    ELSE Append(m, [key |-> key, inst |-> inst])
MapDelete(m, key) == SelectSeq(m, LAMBDA e : e.key # key)

FactoryInit ==
    /\ pool = <<>>
    /\ instances = <<>>
    /\ pending = {}
    /\ returned = [c \in SupportedTypes \X ConnStrings |-> {}]
    /\ rejections = {}
    /\ lastCall = [type |-> "none", conn |-> ""]
    /\ factoryCalls = 0
    /\ closePc = "idle"
    /\ closeIdx = 1
    /\ closeKey = <<"none", "">>
    /\ closeInst = 0
    /\ closeErrors = 0
    /\ closeTried = {}
    /\ closeOk = {}
    /\ closeRemoved = {}
    /\ closeResult = "none"
    /\ closeCalls = 0

\* no detector, no factory call and no code retrieval is running
AuxIdle ==
    /\ wpc = "off"
    /\ wAttempts = 0
    /\ wCode = ""
    /\ wSuccess = "none"
    /\ polls = 0
    /\ pollErrored = FALSE
    /\ firstCode = ""
    /\ usedCodes = <<>>
    /\ dpc = "off"
    /\ detector = "detectCaptcha"
    /\ visible = {}
    /\ dIdx = 1
    /\ probes = [sel \in captchaSelectors |-> 0]
    /\ probeErrored = FALSE
    /\ dResult = "none"
    /\ shot = FALSE
    /\ FactoryInit

(***************************************************************************)
(* Interception pipeline (src/src/helpers/setupRequestInterception.ts)     *)
(* and the onResponse callback the top-level handler registers.            *)
(***************************************************************************)
\* a decoded response body: data present or not (an error body has none) and the number
\* of materials; the materials and the pagination block are drawn when the handler
\* reaches them
ErrorPayload == [hasData |-> FALSE, len |-> 0]
PayloadsUpTo(n) == {[hasData |-> TRUE, len |-> k] : k \in 0..n} \cup {ErrorPayload}

mapToAdData(material) == [id |-> material.id, creativeId |-> material.id, vid |-> material.vid]

CbIdle == [pc |-> "idle", payload |-> ErrorPayload, idx |-> 0, err |-> "", ops |-> <<>>,
           checked |-> 0, firstFail |-> 0, lastStored |-> 0, onResp |-> 0]

\* a variant whose error path aborts the request
RouteCallOnError_abort == "abort"

\* the route method the handler calls last on the error path
RouteCallOnError == "continue"

\* the for..of loop moves to the next material, or leaves the loop
NextRecord(st) ==
    IF st.idx + 1 > st.payload.len
    THEN [st EXCEPT !.idx = st.idx + 1, !.pc = "onresp"]
    ELSE [st EXCEPT !.idx = st.idx + 1, !.pc = "loop"]

\* a variant without the inner try/catch: the error reaches the outer catch
AfterRecordError_rethrow(st) ==
    [st EXCEPT !.firstFail = IF st.firstFail = 0 THEN st.idx ELSE st.firstFail,
               !.pc = "catch", !.err = "record"]

\* the inner catch: the error of one record is logged and the loop goes on
AfterRecordError(st) ==
    NextRecord([st EXCEPT !.firstFail = IF st.firstFail = 0 THEN st.idx ELSE st.firstFail])

PipeInit ==
    /\ cb = [c \in Callbacks |-> CbIdle]
    /\ handled = 0

\* a variant that goes on with the records when the audit file cannot be written
EntersCatch_writeIgnored(outcome) == outcome \in {"fetch", "json"}

\* route.fetch(), response.json() and fs.writeFileSync are inside the outer try: an error
\* of any of them is caught by the outer catch
EntersCatch(outcome) == outcome # "ok"

\* the runtime invokes the route handler for a matched request; the handler awaits
\* route.fetch() and response.json(), writes the audit file and enters the loop
Intercept(c, payload, outcome) ==
    /\ cb[c].pc \in {"idle", "done", "rejected"}
    /\ handled < (IF singleFlight THEN MaxResponses ELSE MaxConcResponses)
    /\ payload \in (IF singleFlight THEN PayloadsUpTo(MaxMaterials) ELSE PayloadsUpTo(MaxConcMaterials))
    /\ c \in (IF singleFlight THEN {"cb1"} ELSE Callbacks)
    /\ handled' = handled + 1
    /\ cb' = [cb EXCEPT ![c] =
                IF EntersCatch(outcome)
                THEN [CbIdle EXCEPT !.pc = "catch", !.err = outcome, !.ops = <<"fetch">>,
                                    !.payload = payload]
                ELSE IF ~payload.hasData
                THEN [CbIdle EXCEPT !.pc = "catch", !.err = "materials", !.ops = <<"fetch">>,
                                    !.payload = payload]
                ELSE NextRecord([CbIdle EXCEPT !.payload = payload, !.ops = <<"fetch">>,
                                               !.err = IF outcome = "ok" THEN "" ELSE outcome])]
    /\ UNCHANGED <<storeVars, restVars, pagVars>>

\* await db.isDuplicate(adData), then the call of insertAd or the skip
CheckRecord(c) ==
    /\ cb[c].pc = "loop"
    /\ \E material \in [id : Ids, vid : Vids \cup {NoVid}], fail \in BOOLEAN :
         LET adData == mapToAdData(material)
             st == [cb[c] EXCEPT !.checked = cb[c].checked + 1]
         IN
            IF fail
            THEN /\ cb' = [cb EXCEPT ![c] = AfterRecordError(st)]
                 /\ UNCHANGED <<ins, insertCalls, skips>>
            ELSE IF isDuplicate(adData)
            THEN /\ cb' = [cb EXCEPT ![c] = NextRecord(st)]
                 /\ skips' = [skips EXCEPT ![adData.id] = @ + 1]
                 /\ UNCHANGED <<ins, insertCalls>>
            ELSE /\ cb' = [cb EXCEPT ![c] = [st EXCEPT !.pc = "ins"]]
                 /\ InsertAdCall(c, adData)
                 /\ UNCHANGED skips
    /\ UNCHANGED <<engine, ads, markers, videos, tx, insertOk, storeCalls, lastErr>>
    /\ UNCHANGED <<handled, restVars, pagVars>>

\* insertAd has returned or thrown
InsertDone(c) ==
    /\ cb[c].pc = "ins"
    /\ InsReturned(c)
    /\ cb' = [cb EXCEPT ![c] = IF ins[c].pc = "ok"
                                THEN NextRecord([cb[c] EXCEPT !.lastStored = cb[c].idx])
                                ELSE AfterRecordError(cb[c])]
    /\ ins' = [ins EXCEPT ![c] = InsIdle]
    /\ UNCHANGED <<engine, ads, markers, videos, tx, insertCalls, insertOk, skips, storeCalls, lastErr>>
    /\ UNCHANGED <<handled, restVars, pagVars>>

\* onResponse(responseBody) as registered by the top-level handler, then the
\* log.info that reads responseBody.data.pagination.total_count
OnResponse(c, hasPag, pagination) ==
    /\ cb[c].pc = "onresp"
    /\ \E throws \in BOOLEAN :
        IF throws
        THEN /\ cb' = [cb EXCEPT ![c].pc = "catch", ![c].err = "onresp", ![c].onResp = @ + 1]
             /\ UNCHANGED pagVars
        ELSE IF hasPag
        THEN /\ updatePagination(pagination)
             /\ UNCHANGED loopVars
             /\ cb' = [cb EXCEPT ![c].pc = "cont", ![c].onResp = @ + 1]
        ELSE /\ cb' = [cb EXCEPT ![c].pc = "catch", ![c].err = "loginfo", ![c].onResp = @ + 1]
             /\ UNCHANGED pagVars
    /\ UNCHANGED <<storeVars, handled, restVars>>

\* await route.continue() at the end of the try block
Continue(c) ==
    /\ cb[c].pc = "cont"
    /\ \E fail \in BOOLEAN :
        cb' = [cb EXCEPT ![c].ops = Append(@, "continue"),
                         ![c].pc = IF fail THEN "catch" ELSE "done",
                         ![c].err = IF fail THEN "continue" ELSE @]
    /\ UNCHANGED <<storeVars, handled, restVars, pagVars>>

\* the outer catch: log.error, then await route.continue()
Catch(c) ==
    /\ cb[c].pc = "catch"
    /\ \E fail \in BOOLEAN :
        cb' = [cb EXCEPT ![c].ops = Append(@, RouteCallOnError),
                         ![c].pc = IF fail THEN "rejected" ELSE "done"]
    /\ UNCHANGED <<storeVars, handled, restVars, pagVars>>

PipeStep ==
    \/ \E c \in Callbacks, p \in PayloadsUpTo(MaxMaterials + MaxConcMaterials), o \in {"ok", "fetch", "json", "write"} :
          Intercept(c, p, o)
    \/ \E c \in Callbacks : CheckRecord(c)
    \/ \E c \in Callbacks : InsertDone(c)
    \/ \E c \in Callbacks, p \in {[page |-> 1, total_count |-> 45, size |-> 20],
                                  [page |-> 2, total_count |-> 60, size |-> 10]} : OnResponse(c, TRUE, p)
    \/ \E c \in Callbacks : OnResponse(c, FALSE, NoPag)
    \/ \E c \in Callbacks : Continue(c)
    \/ \E c \in Callbacks : Catch(c)
    \/ \E c \in Callbacks : InsVideoFind(c)
    \/ \E c \in Callbacks : InsVideoCreate(c)
    \/ \E c \in Callbacks : InsAdCreate(c)
    \/ \E c \in Callbacks : InsMarkerCreate(c)

\* the state after construction: the Prisma engine with empty tables, no route handler
\* running, a new PaginationService, a handler that has not started, no challenge
InitIdle ==
    /\ engine = "prisma"
    /\ StoreInit
    /\ PipeInit
    /\ singleFlight = TRUE
    /\ PagInit
    /\ AuthIdle
    /\ ChallengeIdle
    /\ AuxIdle

\* the pipeline as the runtime delivers it when responses are handled one at a time
SpecPipeSeq == InitIdle /\ [][PipeStep]_vars

\* the same state with a runtime that lets route handlers overlap
InitPipe ==
    /\ engine = "prisma"
    /\ StoreInit
    /\ PipeInit
    /\ singleFlight = FALSE
    /\ PagInit
    /\ AuthIdle
    /\ ChallengeIdle
    /\ AuxIdle

\* the pipeline with route handlers of different requests interleaving at their awaits
SpecPipe == InitPipe /\ [][PipeStep]_vars

\* direct insertAd calls on either engine
StoreStep ==
    \/ \E d \in AdDatas : StoreCall(d)
    \/ StoreReturn
    \/ InsBegin(Direct)
    \/ InsVideoFind(Direct)
    \/ InsVideoCreate(Direct)
    \/ InsAdCreate(Direct)
    \/ InsMarkerCreate(Direct)
    \/ InsCommit(Direct)
    \/ InsRollback(Direct)

\* createDatabase has built the store for either engine and no call has been made
InitStore ==
    /\ engine \in {"prisma", "sqlite"}
    /\ StoreInit
    /\ PipeInit
    /\ singleFlight = TRUE
    /\ PagInit
    /\ AuthIdle
    /\ ChallengeIdle
    /\ AuxIdle

SpecStore == InitStore /\ [][StoreStep]_vars

(***************************************************************************)
(* restoreSession and the default handler: the steps                       *)
(***************************************************************************)
AuthFrame == UNCHANGED <<storeVars, cb, handled, singleFlight, pagVars, fileAtCall, detectVars, factoryVars,
                         mailVars>>
AuthOnly == AuthFrame /\ UNCHANGED <<challengeVars, navOks, rsChecks>>

\* restoreSession returns: the handler is at `if (await restoreSession(...))`
RsReturn(result) ==
    /\ hpc' = "rsReturned"
    /\ rsResult' = result

\* a variant without the clearCookies before addCookies
InstalledCookies_keepOld(file) == browserCookies \cup file.cookies

\* clearCookies(), then addCookies(sessionState.cookies)
InstalledCookies(file) == file.cookies

\* fs.access, clearCookies, the clearing evaluate, JSON.parse, addCookies, goto about:blank
RestoreBegin ==
    /\ hpc = "start"
    /\ IF sessionFile.kind = "missing"
       THEN /\ RsReturn(FALSE)
            /\ UNCHANGED <<browserCookies, ls, curOrigin, originIdx, retryCount>>
       ELSE IF sessionFile.kind = "corrupt"
       THEN /\ browserCookies' = {}
            /\ ls' = ClearCurrentStorage
            /\ RsReturn(FALSE)
            /\ UNCHANGED <<curOrigin, originIdx, retryCount>>
       ELSE /\ browserCookies' = InstalledCookies(sessionFile)
            /\ ls' = ClearCurrentStorage
            /\ \E blankOk \in BOOLEAN : curOrigin' = IF blankOk THEN Blank ELSE curOrigin
            /\ originIdx' = 1
            /\ retryCount' = 0
            /\ hpc' = "replay"
            /\ UNCHANGED rsResult
    /\ UNCHANGED <<sessionFile, navI, loginSuccess, lastAuth, interception, scrollStarted, notified>>
    /\ AuthOnly

\* a variant that rethrows the error of the last attempt
AfterGiveUpPc_rethrow == "rcatch"

\* `if (retryCount === maxRetries) log.warning(...)`: the for loop goes on
AfterGiveUpPc == "replay"

\* one pass of the retry loop for sessionState.origins[originIdx]: goto(origin), setItem
ReplayAttempt ==
    /\ hpc = "replay"
    /\ originIdx <= Len(sessionFile.origins)
    /\ LET entry == sessionFile.origins[originIdx] IN
       \E outcome \in {"ok", "gotoFails", "evaluateFails"} :
         /\ curOrigin' = IF outcome = "gotoFails" THEN curOrigin ELSE entry.origin
         /\ IF outcome = "ok"
            THEN /\ ls' = [ls EXCEPT ![entry.origin] = @ \cup entry.localStorage]
                 /\ originIdx' = originIdx + 1
                 /\ retryCount' = 0
            ELSE /\ UNCHANGED ls
                 /\ IF retryCount + 1 = MaxRetries
                    THEN originIdx' = originIdx + 1 /\ retryCount' = 0
                    ELSE originIdx' = originIdx /\ retryCount' = retryCount + 1
         /\ hpc' = IF outcome # "ok" /\ retryCount + 1 = MaxRetries THEN AfterGiveUpPc ELSE "replay"
    /\ UNCHANGED <<sessionFile, browserCookies, navI, loginSuccess, rsResult, lastAuth,
                   interception, scrollStarted, notified>>
    /\ AuthOnly

\* a variant that goes on to the navigation whatever the cookie state
AfterCookieCheckPc_ignored(cookies) == "nav"

\* `if (!currentState.cookies || currentState.cookies.length === 0) throw`
AfterCookieCheckPc(cookies) == IF cookies = {} THEN "rcatch" ELSE "nav"

\* const currentState = await storageState(); throw when it holds no cookies
VerifyCookies ==
    /\ hpc = "replay"
    /\ originIdx > Len(sessionFile.origins)
    /\ hpc' = AfterCookieCheckPc(browserCookies)
    /\ navI' = 0
    /\ loginSuccess' = FALSE
    /\ UNCHANGED <<sessionFile, browserCookies, ls, curOrigin, originIdx, retryCount, rsResult,
                   lastAuth, interception, scrollStarted, notified>>
    /\ AuthOnly

\* a variant without the break
NavLoopExits_noBreak(loggedIn, i) == i + 1 = NavAttempts

\* `if (loginSuccess) break` and the loop condition i < 3
NavLoopExits(loggedIn, i) == loggedIn \/ i + 1 = NavAttempts

\* one pass of `for (let i = 0; i < 3; i++)`: goto(target), isLoggedIn
NavAttempt ==
    /\ hpc = "nav"
    /\ navI < NavAttempts
    /\ \E navOk \in BOOLEAN, loggedIn \in BOOLEAN :
         IF ~navOk
         THEN /\ hpc' = IF navI = NavAttempts - 1 THEN "rcatch" ELSE "nav"
              /\ navI' = navI + 1
              /\ \E stays \in BOOLEAN : curOrigin' = IF stays THEN curOrigin ELSE Blank
              /\ UNCHANGED <<loginSuccess, lastAuth, navOks, rsChecks>>
         ELSE /\ curOrigin' = Target
              /\ navOks' = navOks + 1
              /\ rsChecks' = rsChecks + 1
              /\ loginSuccess' = loggedIn
              /\ lastAuth' = IF loggedIn THEN "true" ELSE "false"
              /\ navI' = IF loggedIn /\ NavLoopExits(loggedIn, navI) THEN navI ELSE navI + 1
              /\ hpc' = IF NavLoopExits(loggedIn, navI) THEN "navdone" ELSE "nav"
    /\ UNCHANGED <<sessionFile, browserCookies, ls, originIdx, retryCount, rsResult,
                   interception, scrollStarted, notified>>
    /\ AuthFrame
    /\ UNCHANGED challengeVars

\* a variant that saves the browser state before reporting the failed check
FileAfterFailedCheck_saved == storageState

\* `if (!loginSuccess) { log.warning(...); return false; }`: no write
FileAfterFailedCheck == sessionFile

\* after the loop: `if (!loginSuccess) return false`, else write the file and return true
AfterNav ==
    /\ hpc = "navdone"
    /\ IF ~loginSuccess
       THEN /\ RsReturn(FALSE)
            /\ sessionFile' = FileAfterFailedCheck
            /\ UNCHANGED <<browserCookies, ls>>
       ELSE \E writeOk \in BOOLEAN :
            IF writeOk
            THEN /\ sessionFile' = storageState
                 /\ RsReturn(TRUE)
                 /\ UNCHANGED <<browserCookies, ls>>
            ELSE /\ hpc' = "rcatch"
                 /\ UNCHANGED <<sessionFile, rsResult, browserCookies, ls>>
    /\ UNCHANGED <<curOrigin, originIdx, retryCount, navI, loginSuccess, lastAuth,
                   interception, scrollStarted, notified>>
    /\ AuthOnly

\* a variant whose outer catch rethrows to the caller
AfterOuterCatchPc_rethrow == "rsThrew"

\* the outer catch: log.error, `return false`
AfterOuterCatchPc == "rsReturned"

\* the inner catch: clearCookies, evaluate(localStorage.clear()), rethrow (an error of
\* the cleanup itself leaves the rest undone); the outer catch returns false
RestoreCatch ==
    /\ hpc = "rcatch"
    /\ \E cleanup \in {"ok", "clearCookiesThrows", "evaluateThrows"} :
         /\ browserCookies' = IF cleanup = "clearCookiesThrows" THEN browserCookies ELSE {}
         /\ ls' = IF cleanup = "ok" THEN ClearCurrentStorage ELSE ls
    /\ hpc' = AfterOuterCatchPc
    /\ rsResult' = FALSE
    /\ UNCHANGED <<sessionFile, curOrigin, originIdx, retryCount, navI, loginSuccess, lastAuth,
                   interception, scrollStarted, notified>>
    /\ AuthOnly

\* `if (await restoreSession(...))`
HandlerBranch ==
    /\ hpc = "rsReturned"
    /\ hpc' = IF rsResult THEN "collect" ELSE "login"
    /\ UNCHANGED <<sessionFile, browserCookies, ls, curOrigin, originIdx, retryCount, navI,
                   loginSuccess, rsResult, lastAuth, interception, scrollStarted, notified>>
    /\ AuthOnly

\* waitForSelector(cookie banner) .. submitLoginForm
LoginForm ==
    /\ hpc = "login"
    /\ \E outcome \in {"throws", "notSubmitted", "submitted"} :
         /\ hpc' = CASE outcome = "throws" -> "loginCatch"
                     [] outcome = "notSubmitted" -> "returned"
                     [] OTHER -> "captcha"
         /\ \E accepted \in BOOLEAN :
              browserCookies' = IF outcome = "submitted" /\ accepted
                                THEN browserCookies \cup {NewCookie} ELSE browserCookies
    /\ UNCHANGED <<sessionFile, ls, curOrigin, originIdx, retryCount, navI,
                   loginSuccess, rsResult, lastAuth, interception, scrollStarted, notified>>
    /\ AuthOnly

\* await handleCaptchaSolverApi(page, log): it returns true or false (the value is not
\* used) or throws into catch (captchaError)
CaptchaStep ==
    /\ hpc = "captcha"
    /\ \E r \in {"true", "false", "threw"} :
         /\ chResult' = r
         /\ hpc' = IF r = "threw" THEN "abort" ELSE "email"
    /\ UNCHANGED <<sessionFile, browserCookies, ls, curOrigin, originIdx, retryCount, navI,
                   loginSuccess, rsResult, lastAuth, interception, scrollStarted, notified>>
    /\ UNCHANGED <<cpc, captchaMode, attempts, solverCalls, solved, pageSt, goneSinceClicks, prompt,
                   doneSignal, epc, emailOutcome, emailResult, emailWaited, pollHist, navOks, rsChecks>>
    /\ AuthFrame

\* await handleEmailCodeVerification(page, log): it catches every error and returns false;
\* the value is not used
EmailStep ==
    /\ hpc = "email"
    /\ \E r \in {"true", "false"} : emailResult' = r
    /\ hpc' = "save"
    /\ UNCHANGED <<sessionFile, browserCookies, ls, curOrigin, originIdx, retryCount, navI,
                   loginSuccess, rsResult, lastAuth, interception, scrollStarted, notified>>
    /\ UNCHANGED <<cpc, captchaMode, attempts, solverCalls, solved, pageSt, goneSinceClicks, prompt,
                   doneSignal, chResult, epc, emailOutcome, emailWaited, pollHist, navOks, rsChecks>>
    /\ AuthFrame

\* await page.context().storageState({ path: sessionPath })
SaveNewSession ==
    /\ hpc = "save"
    /\ \E writeOk \in BOOLEAN :
         IF writeOk
         THEN sessionFile' = storageState /\ hpc' = "verify"
         ELSE UNCHANGED sessionFile /\ hpc' = "abort"
    /\ UNCHANGED <<browserCookies, ls, curOrigin, originIdx, retryCount, navI,
                   loginSuccess, rsResult, lastAuth, interception, scrollStarted, notified>>
    /\ AuthOnly

\* a variant that goes on to collect whatever the verification says
AfterVerifyPc_ignored(verifyLogin) == "collect"

\* `if (!verifyLogin) return`
AfterVerifyPc(verifyLogin) == IF verifyLogin THEN "collect" ELSE "returned"

\* const verifyLogin = await isLoggedIn(page, log)
VerifyLogin ==
    /\ hpc = "verify"
    /\ \E verifyLogin \in BOOLEAN :
         /\ lastAuth' = IF verifyLogin THEN "true" ELSE "false"
         /\ hpc' = AfterVerifyPc(verifyLogin)
    /\ UNCHANGED <<sessionFile, browserCookies, ls, curOrigin, originIdx, retryCount, navI,
                   loginSuccess, rsResult, interception, scrollStarted, notified>>
    /\ AuthOnly

\* catch (captchaError): showProcessAbortedNotification, then return
AbortNotification ==
    /\ hpc = "abort"
    /\ notified' = TRUE
    /\ \E throws \in BOOLEAN : hpc' = IF throws THEN "loginCatch" ELSE "returned"
    /\ UNCHANGED <<sessionFile, browserCookies, ls, curOrigin, originIdx, retryCount, navI,
                   loginSuccess, rsResult, lastAuth, interception, scrollStarted>>
    /\ AuthOnly

\* catch (error) of the login process: const stillLoggedIn = await isLoggedIn(page, log)
LoginCatch ==
    /\ hpc = "loginCatch"
    /\ \E stillLoggedIn \in BOOLEAN :
         /\ lastAuth' = IF stillLoggedIn THEN "true" ELSE "false"
         /\ hpc' = IF stillLoggedIn THEN "collect" ELSE "returned"     \* `if (!stillLoggedIn) return`
    /\ UNCHANGED <<sessionFile, browserCookies, ls, curOrigin, originIdx, retryCount, navI,
                   loginSuccess, rsResult, interception, scrollStarted, notified>>
    /\ AuthOnly

\* await setupRequestInterception(page, {...}): createDatabase, db.connect, page.route
SetupInterception ==
    /\ hpc = "collect"
    /\ \E throws \in BOOLEAN :
         IF throws
         THEN hpc' = "errorShot" /\ UNCHANGED interception
         ELSE hpc' = "scroll" /\ interception' = TRUE
    /\ UNCHANGED <<sessionFile, browserCookies, ls, curOrigin, originIdx, retryCount, navI,
                   loginSuccess, rsResult, lastAuth, scrollStarted, notified>>
    /\ AuthOnly

\* await scrollAndCollectData(page, paginationService, log)
StartCollection ==
    /\ hpc = "scroll"
    /\ scrollStarted' = TRUE
    /\ hpc' = "done"
    /\ UNCHANGED <<sessionFile, browserCookies, ls, curOrigin, originIdx, retryCount, navI,
                   loginSuccess, rsResult, lastAuth, interception, notified>>
    /\ AuthOnly

\* the handler's outer catch: log.error and the error-state screenshot
ErrorScreenshot ==
    /\ hpc = "errorShot"
    /\ hpc' = "returned"
    /\ UNCHANGED <<sessionFile, browserCookies, ls, curOrigin, originIdx, retryCount, navI,
                   loginSuccess, rsResult, lastAuth, interception, scrollStarted, notified>>
    /\ AuthOnly

AuthStep ==
    \/ RestoreBegin
    \/ ReplayAttempt
    \/ VerifyCookies
    \/ NavAttempt
    \/ AfterNav
    \/ RestoreCatch
    \/ HandlerBranch
    \/ LoginForm
    \/ CaptchaStep
    \/ EmailStep
    \/ SaveNewSession
    \/ VerifyLogin
    \/ AbortNotification
    \/ LoginCatch
    \/ SetupInterception
    \/ StartCollection
    \/ ErrorScreenshot

\* the /api route handler has created the crawler and no request handler has run
InitAuth ==
    /\ engine = "prisma"
    /\ StoreInit
    /\ PipeInit
    /\ singleFlight = TRUE
    /\ PagInit
    /\ AuthInit
    /\ ChallengeIdle
    /\ AuxIdle

SpecAuth == InitAuth /\ [][AuthStep]_vars

(***************************************************************************)
(* handleCaptchaSolverApi and handleEmailCodeVerification: the steps       *)
(***************************************************************************)
ChallengeOnly == UNCHANGED <<storeVars, cb, handled, singleFlight, authVars, pagVars, detectVars, factoryVars,
                             mailVars>>

\* what checkForCaptcha resolves with: detectCaptcha sets the selector when it sets
\* detected, and the screenshot path is null exactly when nothing was detected
DetectionResult(report) ==
    [detected |-> report = "present", screenshotPath |-> report = "present", selector |-> report = "present"]

\* a variant in which the handler has no early return
NoCaptchaPath_never(r) == FALSE

\* `if (!detected || !screenshotPath || !selector) return false`
NoCaptchaPath(r) == ~r.detected \/ ~r.screenshotPath \/ ~r.selector

\* checkForCaptcha and the early return; a detector whose probes all failed reports no
\* CAPTCHA although one is on the page
DetectCaptcha ==
    /\ cpc = "start"
    /\ \E report \in {"absent", "present", "threw"} :
         /\ report = "present" => pageSt.captcha
         /\ detected' = report
         /\ IF report = "threw"
            THEN cpc' = "threw" /\ chResult' = "threw"
            ELSE IF NoCaptchaPath(DetectionResult(report))
            THEN cpc' = "returned" /\ chResult' = "false"
            ELSE cpc' = (IF captchaMode = "manual" THEN "poll" ELSE "solve") /\ UNCHANGED chResult
    /\ UNCHANGED <<captchaMode, attempts, solverCalls, solved, pageSt, goneSinceClicks, prompt,
                   doneSignal, epc, emailOutcome, emailResult, emailWaited, emailSeen, lastClicked>>
    /\ ChallengeOnly

\* how SadCaptchaService.solveCaptcha can end: both points clicked (true), or false
\* because the request failed, the element or its box is missing, or a click threw;
\* const solved = await solver.solveCaptcha(page, selector, screenshotPath); the value
\* is only logged
SolveCaptcha ==
    /\ cpc = "solve"
    /\ solverCalls' = solverCalls + 1
    /\ \E outcome \in {"clicked", "networkError", "noElement", "clickFails"}, after \in PageStates :
         LET touched == outcome \in {"clicked", "clickFails"} IN
         /\ solved' = IF outcome = "clicked" THEN "true" ELSE "false"
         /\ pageSt' = IF touched THEN after ELSE pageSt
         /\ goneSinceClicks' = (outcome = "clicked" /\ ~after.captcha)
    /\ cpc' = "poll"
    /\ UNCHANGED <<captchaMode, attempts, prompt, doneSignal, chResult, epc, emailOutcome,
                   emailResult, emailWaited>>
    /\ UNCHANGED pollHist
    /\ ChallengeOnly

\* checkEmailVerification, then attemptCaptchaConfirmation: a confirm button that is
\* visible and enabled is clicked, and the email form or the absence of the CAPTCHA
\* element after the click is success
RoundSucceeds(seen, clicked, after) ==
    seen.email \/ (clicked /\ (after.email \/ ~after.captcha))

\* a variant that tries the confirm controls before it looks for the email form
ClicksConfirm_first(seen, clickOk) == seen.confirm /\ clickOk

\* attemptCaptchaConfirmation is reached only when checkEmailVerification returned false,
\* and clicks a confirm control that is visible and enabled
ClicksConfirm(seen, clickOk) == ~seen.email /\ seen.confirm /\ clickOk

\* a variant whose loop has no bound
PollBudgetLeft_unbounded(n) == TRUE

\* `while (attempts < maxAttempts)`
PollBudgetLeft(n) == n < MaxAttempts

\* one pass of `while (attempts < maxAttempts)`, the same checks in both modes; an error
\* in the pass is caught and logged
PollRound ==
    /\ cpc = "poll"
    /\ PollBudgetLeft(attempts)
    /\ attempts' = attempts + 1
    /\ \E seen \in PageStates, signal \in BOOLEAN, clickOk \in BOOLEAN, after \in PageStates :
         LET clicked == ClicksConfirm(seen, clickOk)
             final == IF clicked THEN after ELSE seen
             success == RoundSucceeds(seen, clicked, after)
         IN /\ pageSt' = final
            /\ doneSignal' = (doneSignal \/ signal)
            /\ goneSinceClicks' = (goneSinceClicks /\ ~seen.captcha /\ ~final.captcha)
            /\ emailSeen' = seen.email
            /\ lastClicked' = clicked
            /\ cpc' = IF success THEN "returned" ELSE "poll"
            /\ chResult' = IF success THEN "true" ELSE chResult
    /\ UNCHANGED <<captchaMode, solverCalls, solved, prompt, epc, emailOutcome, emailResult,
                   emailWaited>>
    /\ UNCHANGED detected
    /\ ChallengeOnly

\* throw new Error('... verification timed out ...'), rethrown by the outer catch as
\* 'CAPTCHA handling failed'
PollTimeout ==
    /\ cpc = "poll"
    /\ attempts >= MaxAttempts
    /\ cpc' = "threw"
    /\ chResult' = "threw"
    /\ UNCHANGED <<captchaMode, attempts, solverCalls, solved, pageSt, goneSinceClicks, prompt,
                   doneSignal, epc, emailOutcome, emailResult, emailWaited>>
    /\ UNCHANGED pollHist
    /\ ChallengeOnly

\* handleEmailCodeVerification: the screenshot and the probes of the verification form
EmailDetect ==
    /\ cpc = "returned"
    /\ epc = "off"
    /\ \E screenshotThrows \in BOOLEAN :
         IF screenshotThrows
         THEN epc' = "returned" /\ emailResult' = "false" /\ emailOutcome' = "error"
         ELSE IF ~pageSt.email
         THEN epc' = "returned" /\ emailResult' = "true" /\ emailOutcome' = "absent"
         ELSE epc' = "auto" /\ UNCHANGED <<emailResult, emailOutcome>>
    /\ UNCHANGED <<cpc, captchaMode, attempts, solverCalls, solved, pageSt, goneSinceClicks, prompt,
                   doneSignal, chResult, emailWaited>>
    /\ UNCHANGED pollHist
    /\ ChallengeOnly

\* completeVerificationCodeWorkflow(enterVerificationCode, 5, 5000)
EmailAuto ==
    /\ epc = "auto"
    /\ \E outcome \in {"entered", "failed", "throws"} :
         /\ epc' = IF outcome = "failed" THEN "wait" ELSE "returned"
         /\ emailResult' = CASE outcome = "entered" -> "true"
                             [] outcome = "throws" -> "false"
                             [] OTHER -> emailResult
         /\ emailOutcome' = CASE outcome = "entered" -> "auto"
                              [] outcome = "throws" -> "error"
                              [] OTHER -> emailOutcome
         /\ pageSt' = IF outcome = "entered" THEN [pageSt EXCEPT !.email = FALSE] ELSE pageSt
    /\ UNCHANGED <<cpc, captchaMode, attempts, solverCalls, solved, goneSinceClicks, prompt,
                   doneSignal, chResult, emailWaited>>
    /\ UNCHANGED pollHist
    /\ ChallengeOnly

\* after the race of waitForSelector and waitForFunction, whose timeouts are swallowed by
\* .catch(() => {}): `return true` either way
\* the manual wait for the verification-completed button or the Enter key
EmailWait ==
    /\ epc = "wait"
    /\ \E waited \in 0..EmailWaitUnits, throws \in BOOLEAN :
         LET end == IF throws THEN <<"returned", "false", "error">>
                    ELSE IF waited >= EmailWaitUnits THEN <<"returned", "true", "timeout">>
                    ELSE <<"returned", "true", "signal">> IN
         /\ emailWaited' = waited
         /\ epc' = end[1]
         /\ emailResult' = end[2]
         /\ emailOutcome' = end[3]
    /\ UNCHANGED <<cpc, captchaMode, attempts, solverCalls, solved, pageSt, goneSinceClicks, prompt,
                   doneSignal, chResult>>
    /\ UNCHANGED pollHist
    /\ ChallengeOnly

ChallengeStep ==
    \/ DetectCaptcha
    \/ SolveCaptcha
    \/ PollRound
    \/ PollTimeout
    \/ EmailDetect
    \/ EmailAuto
    \/ EmailWait

\* the request handler has reached the challenge handling with the login form submitted
InitChallenge ==
    /\ engine = "prisma"
    /\ StoreInit
    /\ PipeInit
    /\ singleFlight = TRUE
    /\ PagInit
    /\ AuthIdle
    /\ ChallengeInit
    /\ AuxIdle

SpecChallenge == InitChallenge /\ [][ChallengeStep]_vars

\* handleCaptchaSolverApi alone, with every await of it settling: the probes and clicks
\* of a pass, the 10 s timer and the solver's request resolve or reject
CaptchaLiveStep ==
    \/ DetectCaptcha
    \/ SolveCaptcha
    \/ PollRound
    \/ PollTimeout

SpecCaptchaLive ==
    /\ InitChallenge
    /\ [][CaptchaLiveStep]_vars
    /\ WF_vars(DetectCaptcha)
    /\ WF_vars(SolveCaptcha)
    /\ WF_vars(PollRound)
    /\ WF_vars(PollTimeout)

(***************************************************************************)
(* EmailApiService.completeVerificationCodeWorkflow as                     *)
(* handleEmailCodeVerification calls it; EmailAuto above is the same call  *)
(* taken as one step.                                                      *)
(***************************************************************************)
MailMaxAttempts == 5               \* the handler passes 5 as maxAttempts

MailOnly ==
    UNCHANGED <<storeVars, cb, handled, singleFlight, authVars, pagVars, detectVars, factoryVars, cpc,
                captchaMode, attempts, solverCalls, solved, goneSinceClicks, prompt, doneSignal, chResult,
                emailWaited, pollHist>>

\* emailApiService.completeVerificationCodeWorkflow(enterVerificationCode, 5, 5000) is
\* called and enters getTikTokVerificationCodeWithRetries
MailStart ==
    /\ epc = "auto"
    /\ wpc = "off"
    /\ wpc' = "poll"
    /\ UNCHANGED <<wAttempts, wCode, wSuccess, polls, pollErrored, firstCode, usedCodes, pageSt, epc,
                   emailOutcome, emailResult>>
    /\ MailOnly

\* a variant whose loop makes one more pass
MailLoopContinues_inclusive(n) == n <= MailMaxAttempts

\* `while (attempts < maxAttempts)`
MailLoopContinues(n) == n < MailMaxAttempts

\* one pass of the loop: attempts++, getTikTokVerificationCode(); a response with a
\* truthy code is returned at once, a response without one and a thrown error are
\* followed by a delay and the next pass
MailPoll ==
    /\ wpc = "poll"
    /\ MailLoopContinues(wAttempts)
    /\ wAttempts' = wAttempts + 1
    /\ polls' = polls + 1
    /\ \E response \in {"", "c1", "c2", "error"} :
         LET hasCode == response \notin {"", "error"} IN
         /\ pollErrored' = (pollErrored \/ response = "error")
         /\ firstCode' = IF firstCode = "" /\ hasCode THEN response ELSE firstCode
         /\ wCode' = IF hasCode THEN response ELSE wCode
         /\ wpc' = IF hasCode THEN "use" ELSE "poll"
    /\ UNCHANGED <<wSuccess, usedCodes, pageSt, epc, emailOutcome, emailResult>>
    /\ MailOnly

\* the loop ends without a code: { code: '', success: false }, which
\* completeVerificationCodeWorkflow turns into { success: false }
MailGiveUp ==
    /\ wpc = "poll"
    /\ ~MailLoopContinues(wAttempts)
    /\ wSuccess' = "false"
    /\ wpc' = "done"
    /\ UNCHANGED <<wAttempts, wCode, polls, pollErrored, firstCode, usedCodes, pageSt, epc, emailOutcome,
                   emailResult>>
    /\ MailOnly

\* `await useCallback(code)`: enterVerificationCode types and submits the code and probes
\* for the code input; it returns true when the input is gone and false when it is still
\* there or when typing or submitting failed
MailUse ==
    /\ wpc = "use"
    /\ usedCodes' = Append(usedCodes, wCode)
    /\ \E entryFails \in BOOLEAN, formGone \in BOOLEAN :
         /\ pageSt' = [pageSt EXCEPT !.email = ~formGone]
         /\ wSuccess' = IF ~entryFails /\ formGone THEN "true" ELSE "false"
    /\ wpc' = "done"
    /\ UNCHANGED <<wAttempts, wCode, polls, pollErrored, firstCode, epc, emailOutcome, emailResult>>
    /\ MailOnly

\* `if (!verificationResult.success)` the manual wait follows, else `return true`
MailResume ==
    /\ epc = "auto"
    /\ wpc = "done"
    /\ IF wSuccess = "false"
       THEN epc' = "wait" /\ UNCHANGED <<emailResult, emailOutcome>>
       ELSE epc' = "returned" /\ emailResult' = "true" /\ emailOutcome' = "auto"
    /\ UNCHANGED <<mailVars, pageSt>>
    /\ MailOnly

MailStep ==
    \/ MailStart
    \/ MailPoll
    \/ MailGiveUp
    \/ MailUse
    \/ MailResume
    \/ EmailWait

\* handleCaptchaSolverApi has returned and handleEmailCodeVerification has detected the
\* verification form
InitMail ==
    /\ engine = "prisma"
    /\ StoreInit
    /\ PipeInit
    /\ singleFlight = TRUE
    /\ PagInit
    /\ AuthIdle
    /\ cpc = "returned"
    /\ captchaMode \in {"manual", "api"}
    /\ attempts \in {0, 1}
    /\ solverCalls = 0
    /\ solved = "none"
    /\ pageSt \in {st \in PageStates : st.email}
    /\ goneSinceClicks = FALSE
    /\ prompt = FALSE
    /\ doneSignal = FALSE
    /\ chResult \in {"false", "true"}
    /\ epc = "auto"
    /\ emailOutcome = "none"
    /\ emailResult = "none"
    /\ emailWaited = 0
    /\ detected \in {"absent", "present"}
    /\ emailSeen = FALSE
    /\ lastClicked = FALSE
    /\ AuxIdle

SpecMail == InitMail /\ [][MailStep]_vars

(***************************************************************************)
(* The detectors: the steps                                                *)
(***************************************************************************)
DetectOnly == UNCHANGED <<storeVars, cb, handled, singleFlight, authVars, challengeVars, pagVars, factoryVars>>

\* what a probe that timed out or rejected makes of the detector's result: "none" is
\* `catch { continue }` (or `.catch(() => null)`), the loop goes on
ResultOnProbeError_threw == "threw"

\* the per-selector catch of the two CAPTCHA detectors and the .catch of the email one
ResultOnProbeError == "none"

\* one pass of `for (const selector of ...)`: waitForSelector(selector, {timeout: 1000})
\* and isVisible (page.$ and isVisible in checkEmailVerification); checkForCaptcha also
\* takes the element's screenshot inside the try; detectCaptcha, once a selector is
\* visible, looks for a visible CAPTCHA image among captchaImageSelectors and takes its
\* screenshot, skipping every image selector whose probe or screenshot throws
ProbeSelector ==
    /\ dpc = "scan"
    /\ dIdx \in SelectorsOf(detector)
    /\ probes' = [probes EXCEPT ![dIdx] = @ + 1]
    /\ \E outcome \in {"found", "notFound", "error"} :
         /\ outcome = "found" => dIdx \in visible
         /\ outcome = "notFound" => dIdx \notin visible
         /\ IF outcome = "found" /\ detector # "checkForCaptcha"
            THEN /\ dpc' = "done" /\ dResult' = "present" /\ UNCHANGED <<dIdx, probeErrored>>
                 /\ \E imageShot \in BOOLEAN : shot' = (detector = "detectCaptcha" /\ imageShot)
            ELSE IF outcome = "found"
            THEN \E screenshotThrows \in BOOLEAN :
                   IF screenshotThrows
                   THEN /\ probeErrored' = TRUE
                        /\ dIdx' = dIdx + 1
                        /\ dResult' = ResultOnProbeError
                        /\ dpc' = IF ResultOnProbeError = "none" THEN "scan" ELSE "done"
                        /\ UNCHANGED shot
                   ELSE dpc' = "after" /\ shot' = TRUE /\ UNCHANGED <<dIdx, probeErrored, dResult>>
            ELSE /\ UNCHANGED shot
                 /\ probeErrored' = (probeErrored \/ outcome = "error")
                 /\ dIdx' = dIdx + 1
                 /\ dResult' = (IF detector = "checkEmailVerification" /\ outcome = "notFound"
                                THEN "none" ELSE ResultOnProbeError)
                 /\ dpc' = IF dResult' = "none" THEN "scan" ELSE "done"
    /\ UNCHANGED <<detector, visible>>
    /\ DetectOnly

\* the list is exhausted: `return { detected: false, ... }` / `return false`
ScanEnd ==
    /\ dpc = "scan"
    /\ dIdx \notin SelectorsOf(detector)
    /\ dpc' = "done"
    /\ dResult' = "absent"
    /\ UNCHANGED <<detector, visible, dIdx, probes, probeErrored, shot>>
    /\ DetectOnly

\* checkForCaptcha after a detection: page.screenshot outside the inner try, the solver
\* call (which returns a boolean), page.screenshot again when it solved
AfterDetection ==
    /\ dpc = "after"
    /\ \E screenshotThrows \in BOOLEAN :
         dResult' = IF screenshotThrows THEN "threw" ELSE "present"
    /\ dpc' = "done"
    /\ UNCHANGED <<detector, visible, dIdx, probes, probeErrored, shot>>
    /\ DetectOnly

DetectStep ==
    \/ ProbeSelector
    \/ ScanEnd
    \/ AfterDetection

\* CaptchaDetectionService is constructed and detectCaptcha has not been called
InitDetect ==
    /\ engine = "prisma"
    /\ StoreInit
    /\ PipeInit
    /\ singleFlight = TRUE
    /\ PagInit
    /\ AuthIdle
    /\ ChallengeIdle
    \* a detector is called on a page that shows any of the elements its list names
    /\ dpc = "scan"
    /\ detector \in {"detectCaptcha", "checkForCaptcha", "checkEmailVerification"}
    /\ visible \in SUBSET SelectorsOf(detector)
    /\ dIdx = 1
    /\ probes = [sel \in captchaSelectors |-> 0]
    /\ probeErrored = FALSE
    /\ dResult = "none"
    /\ shot = FALSE
    /\ FactoryInit
    /\ wpc = "off"
    /\ wAttempts = 0
    /\ wCode = ""
    /\ wSuccess = "none"
    /\ polls = 0
    /\ pollErrored = FALSE
    /\ firstCode = ""
    /\ usedCodes = <<>>

SpecDetect == InitDetect /\ [][DetectStep]_vars

(***************************************************************************)
(* DatabaseFactory: the steps                                              *)
(***************************************************************************)
FactoryOnly == UNCHANGED <<storeVars, cb, handled, singleFlight, authVars, challengeVars, pagVars, detectVars>>
CloseVars == <<closePc, closeIdx, closeKey, closeInst, closeErrors, closeTried, closeOk, closeRemoved,
               closeResult, closeCalls>>

Rejection(prefix, cause) == [prefix |-> prefix, cause |-> cause]

\* createDatabase up to `await database.connect()`: the key, the lookup in the Map, the
\* switch on the type and the constructor
CreateBegin ==
    /\ factoryCalls < MaxFactoryCalls
    /\ factoryCalls' = factoryCalls + 1
    /\ \E type \in {"prisma", "sqlite", "mysql", "invalid"}, conn \in ConnStrings :
         LET key == getDatabaseKey(type, conn) IN
         /\ lastCall' = [type |-> type, conn |-> conn]
         /\ IF type = "invalid"
            THEN /\ rejections' = rejections \cup {Rejection("none", "Unsupported database type")}
                 /\ UNCHANGED <<instances, pending, returned>>
            ELSE IF MapHas(pool, key)
            THEN /\ returned' = [returned EXCEPT ![<<type, conn>>] = @ \cup {pool[MapGet(pool, key)].inst}]
                 /\ UNCHANGED <<instances, pending, rejections>>
            ELSE IF type \notin SupportedTypes
            THEN /\ rejections' = rejections \cup
                                     {Rejection("Failed to create database", "Unsupported database type")}
                 /\ UNCHANGED <<instances, pending, returned>>
            ELSE /\ Len(instances) < MaxInstances
                 /\ instances' = Append(instances, [key |-> key, type |-> type, conn |-> conn,
                                                     st |-> "connecting"])
                 /\ pending' = pending \cup {Len(instances) + 1}
                 /\ UNCHANGED <<returned, rejections>>
    /\ UNCHANGED <<pool, CloseVars>>
    /\ FactoryOnly

\* what a connect() that rejected leaves in the Map
PoolAfterConnectFailure_cached(m, key, inst) == MapSet(m, key, inst)

\* the catch of createDatabase is reached before this.databases.set
PoolAfterConnectFailure(m, key, inst) == m

\* connect() settles: `this.databases.set(key, database); return database`, or the catch
\* that rethrows 'Failed to create database: ...'
CreateSettle ==
    /\ \E inst \in pending, connected \in BOOLEAN :
         LET e == instances[inst] IN
         /\ pending' = pending \ {inst}
         /\ instances' = [instances EXCEPT ![inst].st = IF connected THEN "connected" ELSE "connectFailed"]
         /\ IF connected
            THEN /\ pool' = MapSet(pool, e.key, inst)
                 /\ returned' = [returned EXCEPT ![<<e.type, e.conn>>] = @ \cup {inst}]
                 /\ UNCHANGED rejections
            ELSE /\ pool' = PoolAfterConnectFailure(pool, e.key, inst)
                 /\ rejections' = rejections \cup {Rejection("Failed to create database", "Connection failed")}
                 /\ UNCHANGED returned
    /\ UNCHANGED <<lastCall, factoryCalls, CloseVars>>
    /\ FactoryOnly

\* closeAll is called: `const errors = []` and the iterator of this.databases.entries()
CloseBegin ==
    /\ closePc = "idle"
    /\ closeCalls < MaxCloses
    /\ closePc' = "iter"
    /\ closeIdx' = 1
    /\ closeErrors' = 0
    /\ closeTried' = {}
    /\ closeOk' = {}
    /\ closeRemoved' = {}
    /\ closeResult' = "none"
    /\ UNCHANGED <<pool, instances, pending, returned, rejections, lastCall, factoryCalls, closeKey,
                   closeInst, closeCalls>>
    /\ FactoryOnly

\* the iterator yields the next entry and `await database.disconnect()` is started
CloseVisit ==
    /\ closePc = "iter"
    /\ closeIdx <= Len(pool)
    /\ closeKey' = pool[closeIdx].key
    /\ closeInst' = pool[closeIdx].inst
    /\ closeTried' = closeTried \cup {pool[closeIdx].inst}
    /\ closePc' = "await"
    /\ UNCHANGED <<pool, instances, pending, returned, rejections, lastCall, factoryCalls, closeIdx,
                   closeErrors, closeOk, closeRemoved, closeResult, closeCalls>>
    /\ FactoryOnly

\* disconnect() settles: `this.databases.delete(key)`, or `errors.push(...)` in the catch
\* inside the for loop, after which the loop goes on
CloseSettle ==
    /\ closePc = "await"
    /\ \E disconnected \in BOOLEAN :
         IF disconnected
         THEN /\ instances' = [instances EXCEPT ![closeInst].st = "disconnected"]
              /\ closeOk' = closeOk \cup {closeInst}
              /\ closeRemoved' = closeRemoved \cup
                                    (IF MapHas(pool, closeKey) THEN {pool[MapGet(pool, closeKey)].inst} ELSE {})
              /\ pool' = MapDelete(pool, closeKey)
              /\ closePc' = "iter"
              /\ UNCHANGED <<closeIdx, closeErrors, closeResult, closeCalls>>
         ELSE /\ instances' = [instances EXCEPT ![closeInst].st = "disconnectFailed"]
              /\ closeErrors' = closeErrors + 1
              /\ closeIdx' = closeIdx + 1
              /\ closePc' = "iter"
              /\ UNCHANGED <<pool, closeOk, closeRemoved, closeResult, closeCalls>>
    /\ UNCHANGED <<pending, returned, rejections, lastCall, factoryCalls, closeKey, closeInst, closeTried>>
    /\ FactoryOnly

\* the iterator is exhausted: `if (errors.length > 0) throw new Error('Failed to close
\* all databases: ...')`
CloseEnd ==
    /\ closePc = "iter"
    /\ closeIdx > Len(pool)
    /\ closeResult' = IF closeErrors > 0 THEN "threw" ELSE "ok"
    /\ closePc' = "idle"
    /\ closeCalls' = closeCalls + 1
    /\ UNCHANGED <<pool, instances, pending, returned, rejections, lastCall, factoryCalls, closeIdx,
                   closeKey, closeInst, closeErrors, closeTried, closeOk, closeRemoved>>
    /\ FactoryOnly

FactoryStep ==
    \/ CreateBegin
    \/ CreateSettle
    \/ CloseBegin
    \/ CloseVisit
    \/ CloseSettle
    \/ CloseEnd

SpecFactory == InitIdle /\ [][FactoryStep]_vars

(***************************************************************************)
(* Claims about session restore and the top-level handler.                 *)
(***************************************************************************)

\* C1: restoreSession returns true only after an isLoggedIn check returned true, and
\* when it returns false no cookie and no localStorage entry installed from the
\* snapshot is left in the browser.
C1_RestoreAllOrNothing ==
    hpc = "rsReturned" =>
        IF rsResult
        THEN lastAuth = "true"
        ELSE /\ browserCookies \cap SnapCookies = {}
             /\ \A o \in Origins : ls[o] = {}

\* C2: interception is set up and the collection loop is started only when the most
\* recent isLoggedIn check returned true; a handler that has returned on another path
\* has done neither.
C2_CollectOnlyWhenAuthenticated ==
    /\ (hpc \in {"collect", "scroll", "done"} \/ interception \/ scrollStarted) => lastAuth = "true"
    /\ (hpc = "returned" /\ lastAuth # "true") => (~interception /\ ~scrollStarted)

\* C2 witness: restore failed, the fresh login was verified, and the loop was started.
C2_CollectAfterFreshLogin ==
    /\ hpc = "done" /\ ~rsResult /\ sessionFile.kind = "snapshot"
    /\ NewCookie \in sessionFile.cookies
    /\ interception /\ scrollStarted /\ lastAuth = "true"

(***************************************************************************)
(* Claims about the interception pipeline and the storage engines.         *)
(***************************************************************************)

\* C3 (as stated): over any sequence of intercepted responses handled one at a time,
\* insertAd is called at most once per record id.
C3_InsertCalledAtMostOnce == \A x \in Ids : insertCalls[x] <= 1

\* C3 (amended): responses handled one at a time, insertAd completes successfully at most
\* once per record id, at most one Record per id is stored, and once a Record with an id
\* is stored no later step calls insertAd for that id (the duplicate check skips it).
C3_PersistedAtMostOnce ==
    [][\A x \in Ids :
          /\ insertOk'[x] <= 1
          /\ CountOfId(x)' <= 1
          /\ (x \in AdIds => insertCalls'[x] = insertCalls[x])]_vars

\* C3 witness: a record was stored by one successful insertAd and a later record with
\* the same id was skipped by the duplicate check.
C3_SecondAttemptSkipped ==
    \E x \in Ids : insertOk[x] = 1 /\ insertCalls[x] = 1 /\ skips[x] >= 1 /\ CountOfId(x) = 1

\* C4: with route handlers interleaving at their awaits, every id is inserted
\* successfully at most once and at most one Record with that id is stored.
C4_AtMostOnceUnderInterleaving ==
    \A x \in Ids : insertOk[x] <= 1 /\ CountOfId(x) <= 1

\* C4 witness: two handlers both passed the duplicate check for the same id; one wrote
\* the ad, the other's insertAd failed.
C4_RaceOnSameId ==
    \E c, d \in Callbacks :
        /\ c # d
        /\ ins[c].pc = "failed" /\ ins[d].pc = "marker"
        /\ ins[c].data.id = ins[d].data.id
        /\ insertCalls[ins[c].data.id] = 2

\* C5: whenever no insertAd is in progress, an ad with id X is stored if and only if a
\* processed-item marker with key X is stored (a failed insertAd leaves neither behind).
C5_AdIffMarker ==
    ins[Direct].pc = "idle" => \A x \in Ids : (x \in AdIds) <=> (x \in markers)

\* C6: a finished route handler has called route.continue last and has called no other
\* route method than fetch and continue, whatever failed on the way.
C6_AlwaysContinues ==
    \A c \in Callbacks :
        cb[c].pc \in {"done", "rejected"} =>
            /\ Len(cb[c].ops) >= 1
            /\ cb[c].ops[Len(cb[c].ops)] = "continue"
            /\ \A i \in 1..Len(cb[c].ops) : cb[c].ops[i] \in {"fetch", "continue"}

\* C6 witness: a handler whose pagination callback threw has finished.
C6_FinishedAfterFailure ==
    \E c \in Callbacks : cb[c].pc = "done" /\ cb[c].err = "onresp" /\ cb[c].firstFail > 0

\* C7: when the duplicate check or insertAd failed for a record, the loop still checks
\* every record of the payload, the pagination callback is still invoked, and the failure
\* does not reach the handler's outer catch.
C7_RecordFailureSkipsOnlyThatRecord ==
    \A c \in Callbacks :
        cb[c].firstFail > 0 =>
            /\ cb[c].pc \in {"onresp", "cont", "catch", "done", "rejected"} =>
                   cb[c].checked = cb[c].payload.len
            /\ cb[c].pc \in {"cont", "catch", "done", "rejected"} => cb[c].onResp = 1
            /\ cb[c].pc = "catch" => cb[c].err \in {"onresp", "loginfo", "continue"}

\* C7 witness: the first record failed, the second was stored, and the handler finished
\* normally after the pagination callback ran.
C7_LaterRecordPersisted ==
    \E c \in Callbacks :
        /\ cb[c].firstFail = 1 /\ cb[c].lastStored = 2
        /\ cb[c].pc = "done" /\ cb[c].err = "" /\ cb[c].onResp = 1

\* the pagination tracker fed by responses while the collection loop runs
PagStep ==
    \/ \E p \in Pags : PaginationResponse(p)
    \/ ScrollStart
    \/ ScrollIteration
    \/ ScrollExit

SpecPag == InitIdle /\ [][PagStep]_vars

\* the same with the loop making progress: every await of scrollAndCollectData settles
\* (scrollNaturally and delay are made of timers and wheel events that resolve or
\* reject), while the responses that feed the tracker may or may not arrive
PagLiveStep ==
    \/ \E p \in Pags : updates < MaxLiveUpdates /\ PaginationResponse(p)
    \/ ScrollStart
    \/ ScrollIteration
    \/ ScrollExit

SpecPagLive ==
    /\ InitIdle
    /\ [][PagLiveStep]_vars
    /\ WF_vars(ScrollStart)
    /\ WF_vars(ScrollIteration)
    /\ WF_vars(ScrollExit)

(***************************************************************************)
(* Claims about the pagination tracker.                                    *)
(***************************************************************************)

C9_MonotoneInTotal ==
    [][totalItems' >= totalItems => getRequiredScrolls' >= getRequiredScrolls]_vars

\* C9 (amended): when totalItems does not decrease, the earlier total is nonzero and the
\* page size stays the same nonzero value, getRequiredScrolls() does not decrease.
C9_MonotoneAtFixedSize ==
    [][(/\ totalItems' >= totalItems
        /\ totalItems # 0
        /\ itemsPerPage # 0
        /\ itemsPerPage' = itemsPerPage) => getRequiredScrolls' >= getRequiredScrolls]_vars

\* C9 witness: an update raised the total from 45 to 60 at page size 20.
C9_TotalGrew ==
    /\ prevUpdate.seen /\ prevUpdate.pag.total_count = 45 /\ prevUpdate.pag.size = 20
    /\ lastUpdate.pag.total_count = 60 /\ lastUpdate.pag.size = 20
    /\ getRequiredScrolls = 3

\* C10: the tracker holds the initial (1, 0, 0) or exactly the triple of the most recent
\* update.
C10_LastWriteWins ==
    <<currentPage, totalItems, itemsPerPage>> =
        IF lastUpdate.seen
        THEN <<lastUpdate.pag.page, lastUpdate.pag.total_count, lastUpdate.pag.size>>
        ELSE <<1, 0, 0>>

\* C10 witness: while the loop was iterating, an update that differs from the previous
\* one in every field and lowers the total has replaced it.
C10_SecondUpdateReplacedFirst ==
    /\ prevUpdate.seen /\ lastUpdate.seen
    /\ prevUpdate.pag.page # lastUpdate.pag.page
    /\ prevUpdate.pag.total_count > lastUpdate.pag.total_count
    /\ prevUpdate.pag.size # lastUpdate.pag.size
    /\ loopPc = "loop" /\ loopI > 0
    /\ totalItems = lastUpdate.pag.total_count

(***************************************************************************)
(* Claims about the collection loop.                                       *)
(***************************************************************************)

\* C11: the collection loop follows the latest getRequiredScrolls(): when the loop ends,
\* it has performed at least as many scroll advances as getRequiredScrolls() returns at
\* that moment, also when an update raised that value while the loop was running.
C11_LoopFollowsLatestValue ==
    [][(loopPc = "loop" /\ loopPc' = "done") => loopI >= getRequiredScrolls]_vars

\* C12: an iteration whose scroll or delay throws does not end the loop and the error
\* does not leave scrollAndCollectData: the loop is never in a thrown state, every failed
\* iteration is counted as performed, and a finished loop has performed exactly the
\* number of iterations it read before the first one.
C12_IterationFailureIsSwallowed ==
    /\ loopPc \in {"idle", "loop", "done"}
    /\ scrollFailed <= loopI
    /\ loopI <= requiredScrolls
    /\ (loopPc = "done" => loopI = requiredScrolls)

\* C12 witness: a loop of 3 iterations has finished although two of them threw.
C12_FinishedAfterFailedScrolls ==
    loopPc = "done" /\ requiredScrolls = 3 /\ loopI = 3 /\ scrollFailed = 2

(***************************************************************************)
(* Claims about the challenge handlers.                                    *)
(***************************************************************************)

\* C13: in the API mode, once solveCaptcha has returned false, handleCaptchaSolverApi
\* never returns true, and it raises within its maxAttempts rounds.
C13_AdapterFailureIsFatal ==
    (captchaMode # "manual" /\ solved = "false") =>
        /\ chResult # "true"
        /\ attempts <= MaxAttempts

\* C14: when solveCaptcha has returned true (coordinates returned, both clicks issued) and
\* the CAPTCHA element has been gone since the clicks, handleCaptchaSolverApi returns
\* true within 2 polling rounds: it does not raise and is not polling after round 2.
C14_SolvedWithinTwoRounds ==
    (solved = "true" /\ goneSinceClicks) =>
        /\ chResult \in {"none", "true"}
        /\ (cpc = "poll" => attempts < 2)

\* C15: the solving adapter is called at most once per invocation; after a failed adapter
\* call the handler waits with the on-page prompt displayed, and once the operator's done
\* signal was given the handler does not raise.
C15_ManualFallbackAfterAdapterError ==
    /\ solverCalls <= 1
    /\ (solved = "false" /\ cpc = "poll") => prompt
    /\ (solved = "false" /\ doneSignal) => chResult # "threw"

\* C16: the CAPTCHA wait and the email wait share one budget of MaxAttempts 10-second
\* units, and an email wait that ran out of time raises instead of returning success.
C16_SharedBudgetFatalTimeout ==
    /\ attempts + emailWaited <= MaxAttempts
    /\ emailOutcome = "timeout" => emailResult # "true"

\* C17: once a challenge handler has raised, the top-level handler only shows the abort
\* notification and returns: it runs no further login or challenge step, sets up no
\* interception and starts no collection loop.
C17_ChallengeFailureIsFatal ==
    chResult = "threw" =>
        /\ hpc \notin {"login", "captcha", "email", "save", "verify", "collect", "scroll", "done"}
        /\ ~interception /\ ~scrollStarted
        /\ (hpc = "returned" => notified)

\* C18: while restoreSession runs and after it returned false the session file has the
\* content it had at the call; after it returned true the file holds the browser state
\* saved after an isLoggedIn check that returned true.
C18_FileWrittenOnlyOnSuccess ==
    /\ hpc \in {"start", "replay", "nav", "navdone", "rcatch"} => sessionFile = fileAtCall
    /\ (hpc = "rsReturned" /\ ~rsResult) => sessionFile = fileAtCall
    /\ (hpc = "rsReturned" /\ rsResult) => (lastAuth = "true" /\ sessionFile = storageState)

\* C18 witness: restoreSession returned false after the live authentication check failed;
\* the snapshot's cookies are in the browser and the file is as it was.
C18_FailedCheckLeftFile ==
    /\ hpc = "rsReturned" /\ ~rsResult /\ lastAuth = "false"
    /\ fileAtCall.kind = "snapshot" /\ sessionFile = fileAtCall
    /\ storageState # sessionFile

\* C19: restoreSession never throws to its caller, and whenever it has returned false the
\* handler's next step is the fresh login sequence.
C19_RestoreFailureFallsThrough ==
    [][/\ hpc' # "rsThrew"
       /\ (hpc = "rsReturned" /\ ~rsResult) => hpc' = "login"]_vars

\* C19 witness: the restored session failed the live authentication check three times and
\* the handler is at the fresh login sequence.
C19_AtLoginAfterInvalidSession ==
    /\ hpc = "login" /\ ~rsResult /\ lastAuth = "false" /\ navI = NavAttempts
    /\ fileAtCall.kind = "snapshot"

\* C20: when the snapshot installs no cookie, restoreSession returns false without a
\* navigation attempt and without an isLoggedIn check.
C20_NoCookiesFailsFast ==
    (fileAtCall.kind = "snapshot" /\ fileAtCall.cookies = {} /\ hpc \in {"nav", "navdone", "rsReturned"}) =>
        /\ hpc = "rsReturned" /\ ~rsResult
        /\ navI = 0 /\ lastAuth = "none"

\* C20 witness: a snapshot without cookies whose two origins were replayed made
\* restoreSession return false.
C20_ReplayedThenFailedFast ==
    /\ hpc = "rsReturned" /\ ~rsResult
    /\ fileAtCall.kind = "snapshot" /\ fileAtCall.cookies = {} /\ Len(fileAtCall.origins) = 2
    /\ ls["o1"] # {}
    /\ navI = 0 /\ lastAuth = "none"

(***************************************************************************)
(* Claims about the steps of restoreSession.                               *)
(***************************************************************************)

\* C21: restoreSession makes at most 3 navigation attempts, runs isLoggedIn after each
\* navigation that succeeded, leaves the loop at the first check that reports
\* authenticated, returns true only after such a check, and returns false after 3
\* attempts without one.
C21_NavigationAttemptsBounded ==
    /\ navI <= NavAttempts
    /\ navOks <= NavAttempts
    /\ rsChecks = navOks
    /\ navI + (IF loginSuccess THEN 1 ELSE 0) <= NavAttempts
    /\ (loginSuccess /\ hpc \in {"nav", "navdone", "rcatch", "rsReturned"}) => (hpc # "nav" /\ lastAuth = "true")
    /\ (hpc = "rsReturned" /\ rsResult) => (loginSuccess /\ lastAuth = "true" /\ rsChecks >= 1)
    /\ (hpc = "navdone" /\ ~loginSuccess) => navI = NavAttempts
    /\ (hpc = "rsReturned" /\ navI = NavAttempts) => ~rsResult

\* C21 witness: two checks reported unauthenticated, the third attempt's check reported
\* authenticated, and restoreSession returned true.
C21_ThirdAttemptAuthenticated ==
    hpc = "rsReturned" /\ rsResult /\ navI = 2 /\ rsChecks = 3 /\ navOks = 3

\* C22: an origin is attempted at most 3 times; a failed attempt either retries the same
\* origin or, after the third, moves on to the next origin, and the replay is left only
\* for the cookie verification.
C22_ReplayGivesUpOnOriginOnly ==
    [][hpc = "replay" =>
          /\ retryCount < MaxRetries
          /\ retryCount' < MaxRetries
          /\ (originIdx <= Len(sessionFile.origins) =>
                 /\ hpc' = "replay"
                 /\ \/ originIdx' = originIdx + 1 /\ retryCount' = 0
                    \/ originIdx' = originIdx /\ retryCount' = retryCount + 1)
          /\ (originIdx > Len(sessionFile.origins) => hpc' \in {"nav", "rcatch"})
          /\ (hpc' = "rcatch" => browserCookies = {})]_vars

\* C22 witness: the first origin's replay failed for good, the second origin was
\* replayed, and restoreSession returned true.
C22_SecondOriginReplayed ==
    /\ hpc = "rsReturned" /\ rsResult
    /\ Len(fileAtCall.origins) = 2
    /\ ls["o1"] = {} /\ ls["o2"] = {SnapKey}

\* C23: for a session file with one origin, two cookies and no local-storage entries:
\* from the installation on the browser holds exactly both cookies, no localStorage entry
\* is written, and once the check has succeeded the step that follows saves a session
\* with two cookies and returns true (or the save itself throws).
C23_ScenarioA ==
    [][fileAtCall = [kind |-> "snapshot", cookies |-> SnapCookies, origins |-> <<[origin |-> "o1", localStorage |-> {}]>>] =>
          /\ (hpc' \in {"replay", "nav", "navdone"} => browserCookies' = SnapCookies)
          /\ (hpc' \in {"start", "replay", "nav", "navdone", "rcatch", "rsReturned"} =>
                 \A o \in Origins : ls'[o] = {})
          /\ ((hpc' = "rsReturned" /\ rsResult') =>
                 /\ browserCookies' = SnapCookies
                 /\ Cardinality(sessionFile'.cookies) = Cardinality(fileAtCall.cookies))
          /\ ((hpc = "navdone" /\ loginSuccess) =>
                 \/ hpc' = "rsReturned" /\ rsResult'
                 \/ hpc' = "rcatch" /\ sessionFile' = sessionFile)]_vars

\* C23 witness: scenario A started with an older cookie in the browser and returned true.
C23_ScenarioARestored ==
    /\ fileAtCall = [kind |-> "snapshot", cookies |-> SnapCookies, origins |-> <<[origin |-> "o1", localStorage |-> {}]>>]
    /\ hpc = "rsReturned" /\ rsResult
    /\ browserCookies = SnapCookies /\ sessionFile.cookies = SnapCookies
    /\ sessionFile.origins = <<>>

(***************************************************************************)
(* Claims about the detectors.                                             *)
(***************************************************************************)

\* C24: when no selector of the list is visible, a detector probes each selector at most
\* once, in order, treats a probe that timed out or rejected as not found, never throws,
\* and ends with the result "absent" after the last selector.
C24_AbsentWithoutThrowing ==
    visible = {} =>
        /\ dResult \in {"none", "absent"}
        /\ dpc \in {"off", "scan", "done"}
        /\ \A sel \in captchaSelectors :
              probes[sel] = IF dpc # "off" /\ sel \in SelectorsOf(detector) /\ sel < dIdx THEN 1 ELSE 0
        /\ dpc = "done" => (dResult = "absent" /\ dIdx \notin SelectorsOf(detector))
        /\ dpc = "scan" => dResult = "none"

\* C24 witness: checkForCaptcha ended with "absent" on a page with no visible selector
\* although a probe failed.
C24_AbsentAfterFailedProbe ==
    /\ dpc = "done" /\ visible = {} /\ dResult = "absent"
    /\ probeErrored /\ detector = "checkForCaptcha"

(***************************************************************************)
(* Claims about DatabaseFactory.                                           *)
(***************************************************************************)

\* C25: as long as closeAll has not been called, all calls with one type and connection
\* string resolved with the same engine, exactly one engine was constructed and connected
\* for their key, and calls with different connection strings resolved with different
\* engines.
C25_OneEnginePerKey ==
    (closeCalls = 0 /\ closePc = "idle") =>
        \A c \in SupportedTypes \X ConnStrings :
            /\ Cardinality(returned[c]) <= 1
            /\ returned[c] # {} =>
                  Cardinality({i \in 1..Len(instances) :
                                 /\ instances[i].key = getDatabaseKey(c[1], c[2])
                                 /\ instances[i].st \in {"connecting", "connected"}}) = 1
            /\ \A c2 \in SupportedTypes \X ConnStrings :
                  c2 # c => returned[c] \cap returned[c2] = {}

\* C26: a connect() that rejects makes createDatabase reject with 'Failed to create
\* database: <cause>' and leaves the Map as it was; every engine in the Map has connected;
\* a call whose key is not in the Map constructs a new engine and awaits its connect().
C26_ConnectFailureLeavesPool ==
    [][/\ \A i \in pending \ pending' :
             instances'[i].st = "connectFailed" =>
                 /\ pool' = pool
                 /\ returned' = returned
                 /\ Rejection("Failed to create database", "Connection failed") \in rejections'
       /\ \A n \in 1..Len(pool') : instances'[pool'[n].inst].st \notin {"connecting", "connectFailed"}
       /\ (/\ factoryCalls' = factoryCalls + 1
           /\ lastCall'.type \in SupportedTypes
           /\ ~MapHas(pool, getDatabaseKey(lastCall'.type, lastCall'.conn))) =>
              /\ Len(instances') = Len(instances) + 1
              /\ instances'[Len(instances')].st = "connecting"
              /\ instances'[Len(instances')].key = getDatabaseKey(lastCall'.type, lastCall'.conn)
              /\ pending' = pending \cup {Len(instances')}]_vars

\* C26 witness: the first engine of a key failed to connect, a later call for the key
\* constructed a second one, and only the second is in the Map.
C26_FreshEngineAfterFailure ==
    /\ Len(instances) = 2
    /\ instances[1].key = instances[2].key
    /\ instances[1].st = "connectFailed" /\ instances[2].st = "connected"
    /\ Len(pool) = 1 /\ pool[1].inst = 2
    /\ Rejection("Failed to create database", "Connection failed") \in rejections

\* C27: when closeAll settles it has called disconnect() on every engine still in the
\* Map, the engines it removed are exactly those whose disconnect() resolved, it rejects
\* if and only if a disconnect() rejected, and after a closeAll that resolved the Map is
\* empty.
C27_CloseAllRemovesDisconnected ==
    [][(closePc = "iter" /\ closePc' = "idle") =>
          /\ \A n \in 1..Len(pool) : pool[n].inst \in closeTried
          /\ closeRemoved = closeOk
          /\ (closeResult' = "threw") <=> (closeTried # closeOk)
          /\ closeResult' = "ok" => pool' = <<>>]_vars

(***************************************************************************)
(* Claims about record identity.                                           *)
(***************************************************************************)

\* C28: isDuplicate(record) is true if and only if a stored ad has the record's id and
\* the record's creativeId, and no two stored ads have the same id and creativeId.
C28_IdentityIsIdAndCreativeId ==
    /\ \A data \in AdDatas : isDuplicate(data) <=> (Row(data) \in AdRows)
    /\ \A r \in AdRows : CopiesIn(r, ads) = 1

(***************************************************************************)
(* Claims about the entry and the wait of handleCaptchaSolverApi.          *)
(***************************************************************************)

\* C29: the handler returns false without a solver call and without a pass of the wait
\* exactly when checkForCaptcha reported no CAPTCHA, and whenever it reported one the
\* handler is in, or has been through, the solver call or the wait.
C29_NoChallengeIffNotDetected ==
    /\ detected = "absent" =>
          (cpc = "returned" /\ chResult = "false" /\ solverCalls = 0 /\ attempts = 0 /\ ~prompt)
    /\ (chResult = "false" /\ cpc = "returned") => detected = "absent"
    /\ detected = "present" =>
          /\ chResult # "false"
          /\ cpc \in {"solve", "poll"} \/ attempts >= 1
          /\ captchaMode # "manual" => (cpc = "solve" \/ solverCalls = 1)
    /\ detected \in {"none", "threw"} => (solverCalls = 0 /\ attempts = 0 /\ chResult # "false")

\* C29 witness: a CAPTCHA was reported, the solver was called and the handler is in the
\* wait.
C29_DetectedThenResolving ==
    detected = "present" /\ solverCalls = 1 /\ cpc = "poll" /\ attempts = 0

\* C30: a pass of the wait in which checkEmailVerification sees the email form makes the
\* handler return true at once, in both modes, without clicking a confirm control in that
\* pass and whether or not the CAPTCHA element is still on the page.
C30_EmailFormEndsWait ==
    [][(cpc = "poll" /\ attempts' = attempts + 1 /\ emailSeen') =>
          /\ cpc' = "returned"
          /\ chResult' = "true"
          /\ ~lastClicked'
          /\ pageSt'.email]_vars

\* C30 witness: the wait ended on the email form in a later pass, with the CAPTCHA
\* element and an enabled confirm control still on the page.
C30_EmailSeenWithCaptchaPresent ==
    /\ cpc = "returned" /\ chResult = "true" /\ emailSeen /\ ~lastClicked
    /\ pageSt.captcha /\ pageSt.confirm /\ pageSt.email
    /\ attempts = 2 /\ captchaMode = "manual"

(***************************************************************************)
(* Claims about the automatic retrieval of the email code and about what   *)
(* the challenge handlers report.                                          *)
(***************************************************************************)

\* C31: the automatic retrieval polls the mail adapter at most maxAttempts (5) times; it
\* stops polling at the first response that carries a code and calls the entry callback
\* once, with exactly that code; when no poll returned a code (polls that threw
\* included) it ends with success = false after exactly 5 polls and without calling the
\* callback, and the handler then goes to the manual wait.
C31_BoundedCodeRetrieval ==
    /\ [](/\ polls <= MailMaxAttempts
          /\ Len(usedCodes) <= 1
          /\ \A n \in 1..Len(usedCodes) : firstCode # "" /\ usedCodes[n] = firstCode
          /\ (wpc = "done" /\ firstCode # "") => usedCodes = <<firstCode>>
          /\ (wpc = "done" /\ firstCode = "") =>
                 /\ wSuccess = "false"
                 /\ polls = MailMaxAttempts
                 /\ usedCodes = <<>>)
    /\ [][/\ firstCode # "" => polls' = polls
          /\ (epc = "auto" /\ epc' # "auto" /\ firstCode = "") => epc' = "wait"]_vars

\* five polls, one of which threw, returned no code and the handler is at the manual wait
C31_FellBackAfterFivePolls ==
    /\ epc = "wait"
    /\ polls = MailMaxAttempts
    /\ pollErrored
    /\ firstCode = ""
    /\ usedCodes = <<>>

\* C32: a handler reports a detected challenge as resolved only after a probe made
\* after the resolution attempt showed it cleared: handleCaptchaSolverApi returns true
\* only when a probe found the email form or, after a confirm click, the CAPTCHA element
\* gone; handleEmailCodeVerification returns true for a detected form only when the
\* probe after the code entry or after the manual wait found the form absent.
C32_ResolvedOnlyAfterReprobe ==
    /\ (cpc = "returned" /\ chResult = "true" /\ epc = "off") =>
           (emailSeen \/ (lastClicked /\ (pageSt.email \/ ~pageSt.captcha)))
    /\ (epc = "returned" /\ emailResult = "true" /\ emailOutcome # "absent") =>
           (emailOutcome = "auto" /\ ~pageSt.email)

\* C33: whenever detectCaptcha reports detected = true, the selector it returns is the
\* first visible selector of the ordered list, and the screenshot path it returns (non-null
\* exactly when detected) names a screenshot that was taken during that detection.
C33_ArtifactWasCaptured ==
    (detector = "detectCaptcha" /\ dpc = "done" /\ dResult = "present") =>
        /\ dIdx \in visible
        /\ \A sel \in visible : dIdx <= sel
        /\ shot

(***************************************************************************)
(* Claims about the order and the frame of the interception callback.      *)
(***************************************************************************)

\* C34: for a decoded response the pagination block is forwarded to the tracker after
\* the audit file is written and before any record of that payload is checked or
\* persisted: a handler that has checked a record has already called onResponse.
C34_PaginationForwardedBeforeRecords ==
    \A c \in Callbacks : cb[c].checked > 0 => cb[c].onResp > 0

\* C35: on the fresh-login path the handler writes the browser state to the session file
\* only after an isLoggedIn check returned true: whenever storageState({path}) writes the
\* file, the most recent isLoggedIn result is true.
C35_FreshSessionSavedOnlyWhenVerified ==
    [][(hpc = "save" /\ hpc' = "verify") => lastAuth = "true"]_vars

(***************************************************************************)
(* Claims about the termination of the collection loop and about the       *)
(* progress report.                                                        *)
(***************************************************************************)

\* C36: scrollAndCollectData always terminates: whatever pagination updates arrive
\* between its awaits and whichever iterations fail, the loop counter never passes the
\* bound read at the start and the loop finishes, returning control to the handler.
C36_ScrollLoopTerminates ==
    /\ [](loopPc # "idle" => loopI <= requiredScrolls)
    /\ <>(loopPc = "done")

\* the loop finished although iterations failed and an update that arrived after the
\* bound was read asks for a different number of scrolls
C36_FinishedDespiteUpdatesAndFailures ==
    /\ loopPc = "done"
    /\ scrollFailed > 0
    /\ lastUpdate.seen
    /\ getRequiredScrolls # requiredScrolls

\* C37: in every reachable tracker state, before the first update and after updates with
\* total_count = 0 or size = 0 included, getCurrentProgress().total is an integer equal to
\* getRequiredScrolls(), and getCurrentProgress().current is the page of the most recent
\* update (1 initially).
C37_ProgressMatchesRequiredScrolls ==
    /\ getCurrentProgress.total = [kind |-> "integer", n |-> getRequiredScrolls]
    /\ getCurrentProgress.current = IF lastUpdate.seen THEN lastUpdate.pag.page ELSE 1

(***************************************************************************)
(* Claims about overlapping calls, failed responses and the CAPTCHA wait.  *)
(***************************************************************************)

\* C38: when a createDatabase call for a type and connection string starts while an
\* earlier call for the same key still awaits connect(), no second engine is constructed
\* for that key (the two calls share one engine): at no time do two engines of one key
\* have their connect() awaited.
C38_OverlappingCallsShareEngine ==
    \A i, j \in pending : instances[i].key = instances[j].key => i = j

\* C39: when route.fetch, response.json or the write of the audit file fails for an
\* intercepted response, the handler of that response checks and inserts no record and
\* does not call onResponse: its steps leave the store and the tracker as they were.
C39_FailedResponseLeavesStateUnchanged ==
    /\ [](\A c \in Callbacks :
            cb[c].err \in {"fetch", "json", "write"} =>
                /\ cb[c].checked = 0
                /\ cb[c].lastStored = 0
                /\ cb[c].onResp = 0
                /\ cb[c].pc \in {"catch", "done", "rejected"})
    /\ [][\A c \in Callbacks :
            (cb'[c] # cb[c] /\ cb'[c].err \in {"fetch", "json", "write"}) =>
                UNCHANGED <<ads, markers, videos, ins, insertCalls, skips, trackerVars>>]_vars

\* a response with records whose audit file could not be written has been handled while
\* the store already held an ad of an earlier response
C39_WriteFailedAfterStoredResponse ==
    /\ \E c \in Callbacks :
         cb[c].pc = "done" /\ cb[c].err = "write" /\ cb[c].payload.len > 0
    /\ AdIds # {}

====
